---- MODULE Spec2Model ----
(***************************************************************************)
(* Producer/consumer message exchange between a parent (consumer) and a    *)
(* forked child (producer) over three transports: anonymous pipe, named    *)
(* FIFO and POSIX shared memory ("6 (IPC)"), together with the             *)
(* write_all / read_all loops that drive the pipe and the FIFO.            *)
(* The thread creation demo of the lab's final tasks (q1.c) is modelled at *)
(* the end of the module.                                                  *)
(***************************************************************************)
EXTENDS Integers, Sequences, FiniteSets, TLC

VARIABLES
  transport,   \* "pipe" | "pipe_inline" | "fifo" | "shm": which program runs
  stdin,       \* what the producer's scanf calls will find: [num, elems]
  preExisted,  \* the FIFO path / shm name was in the namespace before main
  named,       \* the FIFO path / shm name is in the namespace now
  par,         \* the parent process: pc, descriptors, locals
  chi,         \* the child process: pc, descriptors, locals
  chan,        \* bytes in flight in the pipe / FIFO buffer
  shm,         \* the int slots of the shared-memory segment
  log,         \* the setup / teardown system calls issued so far, in order
  hist,        \* history of the transfer (for stating properties)
  io,          \* a stand-alone run of write_all / read_all over a stub
  thr          \* the threads program that runs, if one does ("8 (Threading)", Lab)

sessVars == <<transport, stdin, preExisted, named, par, chi, chan, shm, log, hist, thr>>
ipcVars == <<transport, stdin, preExisted, named, par, chi, chan, shm, log, hist, io>>
vars == <<transport, stdin, preExisted, named, par, chi, chan, shm, log, hist, io, thr>>

----------------------------------------------------------------------------
(* Program constants *)

BUFFER_SIZE == 1024
SizeofInt == 4
ChildPid == 1       \* the pid fork returns to the parent for the child: some value > 0

(* Bounds of the model *)

MaxCount == 3      \* largest valid count whose payloads are enumerated
ChanCap == 5       \* bytes the pipe / FIFO buffer holds before write blocks
MaxBytes == 5      \* largest request handed to a stand-alone write_all / read_all

Vals == {-1, 258}  \* payload element values (bytes FF FF FF FF and 02 01 00 00)

----------------------------------------------------------------------------
(* Wire format: an int is four bytes in host (little-endian) order *)

Min(a, b) == IF a < b THEN a ELSE b

IntBytes(v) ==
  << v % 256, (v \div 256) % 256, (v \div 65536) % 256, (v \div 16777216) % 256 >>

BytesInt(b) ==
  b[1] + 256 * b[2] + 65536 * b[3]
    + 16777216 * (IF b[4] >= 128 THEN b[4] - 256 ELSE b[4])

\* An object of n bytes of which only the first Len(b) were filled in
Filled(b, n) == [k \in 1..n |-> IF k <= Len(b) THEN b[k] ELSE 0]

\* An int array as the bytes of its elements, one after the other
ArrBytes(a) ==
  [k \in 1..(SizeofInt * Len(a)) |->
     IntBytes(a[((k - 1) \div SizeofInt) + 1])[((k - 1) % SizeofInt) + 1]]

\* The int array a byte buffer holds
BytesArr(b) ==
  [k \in 1..(Len(b) \div SizeofInt) |->
     BytesInt(SubSeq(b, SizeofInt * (k - 1) + 1, SizeofInt * k))]

----------------------------------------------------------------------------
(* write_all / read_all: the loop shared by the pipe and the FIFO programs *)

\* `while (total < bytes)`
LoopTestOffByOne(total, bytes) == total <= bytes
LoopTest(total, bytes) == total < bytes

\* `if (written <= 0) return -1;`
PrimFailedNegativeOnly(r) == r < 0
PrimFailed(r) == r <= 0

\* `total += written;`
AdvanceByOne(total, r) == total + 1
AdvanceOverwrites(total, r) == r
Advance(total, r) == total + r

\* What the write / read system call may return for a request of n bytes of
\* which at most avail can be moved now: an error, nothing, or a positive part.
PrimFaults == {-1, 0}
PrimResults(n, avail) == PrimFaults \cup (1..Min(n, avail))

IoFns == {"write_all", "read_all"}

\* No threads program runs
ThrIdle == [prog |-> "none"]

IoIdle == [fn |-> "none", buf |-> <<>>, bytes |-> 0, total |-> 0, moved |-> <<>>,
           calls |-> 0, ones |-> TRUE, failedAt |-> 0, returned |-> FALSE, ret |-> 0]

IoStart(fn, n) ==
  [fn |-> fn, buf |-> [k \in 1..n |-> k], bytes |-> n, total |-> 0, moved |-> <<>>,
   calls |-> 0, ones |-> TRUE, failedAt |-> 0, returned |-> FALSE, ret |-> 0]

\* One iteration of the loop: the primitive is called at offset total for
\* bytes - total bytes and answers r.
IoIterate ==
  /\ io.fn \in IoFns
  /\ ~io.returned
  /\ LoopTest(io.total, io.bytes)
  /\ \E r \in PrimResults(io.bytes - io.total, io.bytes - io.total) :
       io' = IF PrimFailed(r)
             THEN [io EXCEPT !.calls = @ + 1, !.ones = FALSE,
                             !.failedAt = IF io.failedAt = 0 THEN io.calls + 1 ELSE @,
                             !.returned = TRUE, !.ret = -1]
             ELSE [io EXCEPT !.calls = @ + 1, !.ones = @ /\ r = 1,
                             !.failedAt = IF r <= 0 /\ io.failedAt = 0 THEN io.calls + 1 ELSE @,
                             !.moved = @ \o SubSeq(io.buf, io.total + 1, io.total + r),
                             !.total = Advance(io.total, r)]
  /\ UNCHANGED sessVars

\* `return total;` once the loop test fails
IoReturn ==
  /\ io.fn \in IoFns
  /\ ~io.returned
  /\ ~LoopTest(io.total, io.bytes)
  /\ io' = [io EXCEPT !.returned = TRUE, !.ret = io.total]
  /\ UNCHANGED sessVars

----------------------------------------------------------------------------
(* The session: configuration *)

\* "pipe_inline" is the pipe program written in main alone, without the
\* check_result helpers (unnamed/part_005)
Transports == {"pipe", "pipe_inline", "fifo", "shm"}

IsPipe(t) == t \in {"pipe", "pipe_inline"}

\* `check_result(close(fd[..]), "close")` ends the process when close fails;
\* the inline program calls `close(fd[..])` and ignores the result
CloseFatal(t) == t = "pipe"

\* close(fd[end]): the descriptor is released, also when close reports an error
CloseEndKeeps(fds, end) == fds
CloseEnd(fds, end) == fds \ {end}

\* Slots of the segment the message may not use: shared memory keeps the
\* count in slot 0 (`... - 1` in its bound), the pipe and the FIFO none.
ReservedSlotsNone(t) == 0
ReservedSlots(t) == IF t = "shm" THEN 1 ELSE 0

\* `num <= 0 || num > (int)(BUFFER_SIZE / sizeof(int)) [- 1]`
InvalidCountNoReserve(t, num) ==
  num <= 0 \/ num > BUFFER_SIZE \div SizeofInt
InvalidCountOffByOne(t, num) ==
  num <= 0 \/ num >= (BUFFER_SIZE \div SizeofInt) - ReservedSlots(t)
InvalidCountAcceptsZero(t, num) ==
  num < 0 \/ num > (BUFFER_SIZE \div SizeofInt) - ReservedSlots(t)
InvalidCount(t, num) ==
  num <= 0 \/ num > (BUFFER_SIZE \div SizeofInt) - ReservedSlots(t)

ShmSlots == BUFFER_SIZE \div SizeofInt

\* What scanf finds on the producer's standard input: the count token (an
\* int, or something "%d" cannot convert) and the element tokens that convert;
\* the scanf after the last of them fails.
Prefixes(n) == UNION {[1..k -> Vals] : k \in 0..n}
Stdins(t) ==
  {[numOk |-> FALSE, num |-> 0, elems |-> <<>>]}
  \cup {[numOk |-> TRUE, num |-> n, elems |-> <<>>] :
          n \in {-1, 0, (BUFFER_SIZE \div SizeofInt) - ReservedSlots(t) + 1}}
  \cup {[numOk |-> TRUE, num |-> (BUFFER_SIZE \div SizeofInt) - ReservedSlots(t), elems |-> <<>>]}
  \cup UNION {{[numOk |-> TRUE, num |-> n, elems |-> e] : e \in Prefixes(n)} : n \in 1..MaxCount}

\* The segment as shm_open finds it: zero-filled when new, and possibly the
\* message of an earlier session when the name already existed.
ZeroSegment == [k \in 1..ShmSlots |-> 0]
StaleSegment == [k \in 1..ShmSlots |-> IF k = 1 THEN 1 ELSE IF k = 2 THEN 7 ELSE 0]

\* The largest message a transport takes: count at the capacity limit and
\* that many elements
BoundaryStdin(t) ==
  LET cap == (BUFFER_SIZE \div SizeofInt) - ReservedSlots(t) IN
  [numOk |-> TRUE, num |-> cap, elems |-> [k \in 1..cap |-> k - 2]]

\* The state at the start of main, but for the producer's input
InitSession ==
  /\ transport \in Transports
  /\ preExisted \in (IF IsPipe(transport) THEN {FALSE} ELSE BOOLEAN)
  /\ named = preExisted
  /\ par = [pc |-> "main", fds |-> {}, num |-> 0, arr |-> <<>>, buf |-> <<>>,
            bytes |-> 0, total |-> 0, out |-> <<>>, printed |-> FALSE, waited |-> 0]
  /\ chi = [pc |-> "unborn", fds |-> {}, num |-> 0, arr |-> <<>>, i |-> 0,
            buf |-> <<>>, bytes |-> 0, total |-> 0]
  /\ chan = <<>>
  /\ shm \in (IF transport # "shm" THEN {<<>>}
              ELSE IF preExisted THEN {ZeroSegment, StaleSegment} ELSE {ZeroSegment})
  /\ log = <<>>
  /\ hist = [ioBroken |-> FALSE, envFail |-> FALSE, partial |-> FALSE, gate |-> "none",
             wcalled |-> FALSE, sent |-> 0, stores |-> {}, loads |-> {},
             wOpened |-> FALSE, rOpened |-> FALSE]
  /\ io = IoIdle
  /\ thr = ThrIdle

Init == InitSession /\ stdin \in Stdins(transport)
InitBoundary == InitSession /\ stdin = BoundaryStdin(transport)

\* A process is gone once it exited or a signal ended it
Exited(p) == p.pc \in {"exit_ok", "exit_fail", "killed"}

Call(p, op, ok) == [p |-> p, op |-> op, ok |-> ok]

\* exit(): the kernel drops every descriptor and mapping the process holds
ExitOf(p, status) == [p EXCEPT !.pc = status, !.fds = {}]

\* A call on the name can only succeed while the name exists
UnlinkMay(ok) == ok => named

\* cleanup_fifo(): `unlink(FIFO_PATH)`, a failure is only reported
cleanup_fifo(p, uOk) == <<Call(p, "unlink", uOk)>>

\* close_fd(fd): `close(fd)`, a failure is only reported
close_fd(p, cOk) == <<Call(p, "close", cOk)>>

\* cleanup_shm(ptr, shm_fd, unlink_shm): munmap when ptr is a mapping, close
\* when shm_fd is a descriptor, shm_unlink when asked; failures only reported
cleanup_shm_NoUnlinkArg(p, fds, unlink_shm, mOk, cOk, uOk) ==
  (IF "map" \in fds THEN <<Call(p, "munmap", mOk)>> ELSE <<>>)
  \o (IF "fd" \in fds THEN <<Call(p, "close", cOk)>> ELSE <<>>)
  \o <<Call(p, "shm_unlink", uOk)>>
cleanup_shm_CloseTwice(p, fds, unlink_shm, mOk, cOk, uOk) ==
  (IF "map" \in fds THEN <<Call(p, "munmap", mOk)>> ELSE <<>>)
  \o (IF "fd" \in fds THEN <<Call(p, "close", cOk), Call(p, "close", FALSE)>> ELSE <<>>)
  \o (IF unlink_shm # 0 THEN <<Call(p, "shm_unlink", uOk)>> ELSE <<>>)
cleanup_shm_StopsAtFailure(p, fds, unlink_shm, mOk, cOk, uOk) ==
  LET unmapFails == "map" \in fds /\ ~mOk
      closeFails == "fd" \in fds /\ ~cOk
  IN
  (IF "map" \in fds THEN <<Call(p, "munmap", mOk)>> ELSE <<>>)
  \o (IF "fd" \in fds /\ ~unmapFails THEN <<Call(p, "close", cOk)>> ELSE <<>>)
  \o (IF unlink_shm # 0 /\ ~unmapFails /\ ~closeFails
      THEN <<Call(p, "shm_unlink", uOk)>> ELSE <<>>)
cleanup_shm(p, fds, unlink_shm, mOk, cOk, uOk) ==
  (IF "map" \in fds THEN <<Call(p, "munmap", mOk)>> ELSE <<>>)
  \o (IF "fd" \in fds THEN <<Call(p, "close", cOk)>> ELSE <<>>)
  \o (IF unlink_shm # 0 THEN <<Call(p, "shm_unlink", uOk)>> ELSE <<>>)

\* The name after the calls of a teardown
RECURSIVE NamedAfter(_, _)
NamedAfter(n, calls) ==
  IF calls = <<>> THEN n
  ELSE NamedAfter(n /\ ~(Head(calls).op \in {"unlink", "shm_unlink"} /\ Head(calls).ok),
                  Tail(calls))

AnyFailed(calls) == \E k \in 1..Len(calls) : ~calls[k].ok


----------------------------------------------------------------------------
(* main: transport setup and fork *)

cfgVars == <<transport, stdin, preExisted, io, thr>>

\* pipe: `check_result(pipe(fd), "pipe");`
PipeMainPipe ==
  /\ IsPipe(transport) /\ par.pc = "main"
  /\ \E ok \in BOOLEAN :
       /\ par' = IF ok THEN [par EXCEPT !.pc = "fork", !.fds = {"r", "w"}]
                 ELSE ExitOf(par, "exit_fail")
       /\ log' = Append(log, Call("parent", "pipe", ok))
       /\ hist' = [hist EXCEPT !.envFail = @ \/ ~ok]
  /\ UNCHANGED <<cfgVars, named, chi, chan, shm>>

\* FIFO: `mkfifo(FIFO_PATH, 0666)`; EEXIST is ignored, any other error ends main
MkfifoOutcomes == {"ok", "EEXIST", "other"}
MkfifoFatalAlsoOnExist(res) == res # "ok"
MkfifoFatalNever(res) == FALSE
MkfifoFatal(res) == res \notin {"ok", "EEXIST"}

FifoMainMkfifo ==
  /\ transport = "fifo" /\ par.pc = "main"
  /\ \E res \in MkfifoOutcomes :
       /\ res = "ok" => ~named
       /\ res = "EEXIST" => named
       /\ par' = IF MkfifoFatal(res) THEN ExitOf(par, "exit_fail")
                 ELSE [par EXCEPT !.pc = "fork"]
       /\ named' = (named \/ res = "ok")
       /\ log' = Append(log, [p |-> "parent", op |-> "mkfifo", ok |-> res = "ok", res |-> res])
       /\ hist' = [hist EXCEPT !.envFail = @ \/ MkfifoFatal(res)]
  /\ UNCHANGED <<cfgVars, chi, chan, shm>>

\* shared memory: `shm_open(SHM_NAME, O_CREAT | O_RDWR, 0666)`
ShmMainOpen ==
  /\ transport = "shm" /\ par.pc = "main"
  /\ \E ok \in BOOLEAN :
       /\ par' = IF ok THEN [par EXCEPT !.pc = "ftruncate", !.fds = {"fd"}]
                 ELSE ExitOf(par, "exit_fail")
       /\ named' = (named \/ ok)
       /\ log' = Append(log, Call("parent", "shm_open", ok))
       /\ hist' = [hist EXCEPT !.envFail = @ \/ ~ok]
  /\ UNCHANGED <<cfgVars, chi, chan, shm>>

\* `ftruncate(shm_fd, BUFFER_SIZE)`; on failure cleanup_shm(NULL, shm_fd, 1)
ShmMainFtruncate ==
  /\ transport = "shm" /\ par.pc = "ftruncate"
  /\ \E ok, mOk, cOk, uOk \in BOOLEAN :
       /\ UnlinkMay(uOk)
       /\ LET calls == IF ok THEN <<>> ELSE cleanup_shm("parent", par.fds, 1, mOk, cOk, uOk) IN
          /\ par' = IF ok THEN [par EXCEPT !.pc = "mmap"] ELSE ExitOf(par, "exit_fail")
          /\ named' = NamedAfter(named, calls)
          /\ log' = Append(log, Call("parent", "ftruncate", ok)) \o calls
       /\ hist' = [hist EXCEPT !.envFail = @ \/ ~ok]
  /\ UNCHANGED <<cfgVars, chi, chan, shm>>

\* `mmap(...)`; `check_pointer(ptr, "mmap")` exits at once on MAP_FAILED
ShmMainMmap ==
  /\ transport = "shm" /\ par.pc = "mmap"
  /\ \E ok \in BOOLEAN :
       /\ par' = IF ok THEN [par EXCEPT !.pc = "fork", !.fds = @ \cup {"map"}]
                 ELSE ExitOf(par, "exit_fail")
       /\ log' = Append(log, Call("parent", "mmap", ok))
       /\ hist' = [hist EXCEPT !.envFail = @ \/ ~ok]
  /\ UNCHANGED <<cfgVars, named, chi, chan, shm>>

\* Where each process starts after fork
ChildEntry(t) == IF IsPipe(t) THEN "c_close_r" ELSE IF t = "fifo" THEN "c_open" ELSE "c_scan_num"
ParentEntryWaitsFirst(t) == "p_wait"
ParentEntry(t) == IF IsPipe(t) THEN "p_close_w" ELSE IF t = "fifo" THEN "p_open" ELSE "p_wait"

ForkFailureCallsNoCleanup(t, fds, mOk, cOk, uOk) == <<>>

\* What main does when fork returns -1: the pipe program exits, the FIFO
\* program unlinks the path, the shared-memory program runs cleanup_shm(ptr, shm_fd, 1)
ForkFailureCalls(t, fds, mOk, cOk, uOk) ==
  IF IsPipe(t) THEN <<>>
  ELSE IF t = "fifo" THEN cleanup_fifo("parent", uOk)
  ELSE cleanup_shm("parent", fds, 1, mOk, cOk, uOk)

\* `pid = fork();` the child inherits the descriptors and the mapping
MainFork ==
  /\ par.pc = "fork"
  /\ \E ok, mOk, cOk, uOk \in BOOLEAN :
       /\ UnlinkMay(uOk)
       /\ LET calls == IF ok THEN <<>> ELSE ForkFailureCalls(transport, par.fds, mOk, cOk, uOk) IN
          /\ par' = IF ok THEN [par EXCEPT !.pc = ParentEntry(transport)]
                    ELSE ExitOf(par, "exit_fail")
          /\ chi' = IF ok THEN [chi EXCEPT !.pc = ChildEntry(transport), !.fds = par.fds]
                    ELSE chi
          /\ named' = NamedAfter(named, calls)
          /\ log' = Append(log, Call("parent", "fork", ok)) \o calls
       /\ hist' = [hist EXCEPT !.envFail = @ \/ ~ok]
  /\ UNCHANGED <<cfgVars, chan, shm>>

----------------------------------------------------------------------------
(* The child: the producer *)

\* pipe main, child branch: `check_result(close(fd[READ_END]), "close");`
\* (inline: `close(fd[READ_END]);`)
PipeChildCloseRead ==
  /\ IsPipe(transport) /\ chi.pc = "c_close_r"
  /\ \E ok \in BOOLEAN :
       /\ chi' = IF ok \/ ~CloseFatal(transport)
                 THEN [chi EXCEPT !.pc = "c_scan_num", !.fds = CloseEnd(@, "r")]
                 ELSE ExitOf(chi, "exit_fail")
       /\ log' = Append(log, Call("child", "close_r", ok))
       /\ hist' = [hist EXCEPT !.envFail = @ \/ ~ok]
  /\ UNCHANGED <<cfgVars, named, par, chan, shm>>

\* FIFO child: `open(FIFO_PATH, O_WRONLY)` is entered; the path is looked up
FifoChildOpenEnter ==
  /\ transport = "fifo" /\ chi.pc = "c_open"
  /\ \E ok \in BOOLEAN :
       /\ ok => named
       /\ chi' = IF ok THEN [chi EXCEPT !.pc = "c_open_wait"] ELSE ExitOf(chi, "exit_fail")
       /\ log' = IF ok THEN log ELSE Append(log, Call("child", "open", FALSE))
       /\ hist' = [hist EXCEPT !.envFail = @ \/ ~ok]
  /\ UNCHANGED <<cfgVars, named, par, chan, shm>>

\* The write-side open returns once the read side is being opened or is open
ReaderPresentAlways == TRUE
ReaderPresent == par.pc = "p_open_wait" \/ hist.rOpened

FifoChildOpenReturn ==
  /\ transport = "fifo" /\ chi.pc = "c_open_wait"
  /\ ReaderPresent
  /\ chi' = [chi EXCEPT !.pc = "c_scan_num", !.fds = {"w"}]
  /\ log' = Append(log, Call("child", "open", TRUE))
  /\ hist' = [hist EXCEPT !.wOpened = TRUE]
  /\ UNCHANGED <<cfgVars, named, par, chan, shm>>

ChildBailCallsNone(t, fds, mOk, cOk, uOk) == <<>>

\* What the child does before exit(EXIT_FAILURE) on bad input: nothing in the
\* pipe program, close_fd(fd) in the FIFO program, cleanup_shm(ptr, shm_fd, 0)
\* in the shared-memory program
ChildBailCalls(t, fds, mOk, cOk, uOk) ==
  IF IsPipe(t) THEN <<>>
  ELSE IF t = "fifo" THEN close_fd("child", cOk)
  ELSE cleanup_shm("child", fds, 0, mOk, cOk, uOk)

\* `scanf("%d", &num)`, the bound on num, and for shared memory `shm_data[0] = num`
ChildScanNum ==
  /\ chi.pc = "c_scan_num"
  /\ \E mOk, cOk, uOk \in BOOLEAN :
       /\ UnlinkMay(uOk)
       /\ LET bad == ~stdin.numOk \/ InvalidCount(transport, stdin.num)
              calls == IF bad THEN ChildBailCalls(transport, chi.fds, mOk, cOk, uOk) ELSE <<>>
          IN
          /\ chi' = IF bad THEN ExitOf(chi, "exit_fail")
                    ELSE [chi EXCEPT !.num = stdin.num, !.i = 0,
                                     !.pc = IF transport # "shm" THEN "c_malloc"
                                            ELSE IF 0 < stdin.num THEN "c_scan_elem"
                                            ELSE "c_finish"]
          /\ shm' = IF ~bad /\ transport = "shm" THEN [shm EXCEPT ![1] = stdin.num] ELSE shm
          /\ hist' = [hist EXCEPT !.envFail = @ \/ bad \/ AnyFailed(calls),
                                  !.gate = IF ~stdin.numOk THEN @
                                           ELSE IF bad THEN "rejected" ELSE "accepted",
                                  !.stores = IF ~bad /\ transport = "shm" THEN @ \cup {0} ELSE @]
          /\ named' = NamedAfter(named, calls)
          /\ log' = log \o calls
  /\ UNCHANGED <<cfgVars, par, chan>>

\* pipe / FIFO child: `malloc(num * sizeof(int))`, `check_pointer(arr, "malloc")`;
\* a request of a negative num (a huge size_t) is never granted, and with
\* num = 0 the scan loop has no pass
ChildMalloc ==
  /\ chi.pc = "c_malloc"
  /\ \E ok \in BOOLEAN :
       /\ ok => chi.num >= 0
       /\ chi' = IF ~ok THEN ExitOf(chi, "exit_fail")
                 ELSE IF 0 < chi.num THEN [chi EXCEPT !.pc = "c_scan_elem", !.arr = <<>>]
                 ELSE [chi EXCEPT !.pc = "c_write_num", !.arr = <<>>,
                                  !.buf = IntBytes(chi.num), !.bytes = SizeofInt, !.total = 0]
       /\ log' = IF ok THEN log ELSE Append(log, Call("child", "malloc", FALSE))
       /\ hist' = [hist EXCEPT !.envFail = @ \/ ~ok]
  /\ UNCHANGED <<cfgVars, named, par, chan, shm>>

\* One pass of `for (i = 0; i < num; i++) scanf("%d", &arr[i])` (pipe, FIFO)
\* or `scanf("%d", &shm_data[i + 1])` (shared memory); the loop's exit leads to
\* the first write_all (pipe, FIFO) or to the final cleanup (shared memory)
ChildScanElem ==
  /\ chi.pc = "c_scan_elem"
  /\ chi.i < chi.num
  /\ \E mOk, cOk, uOk \in BOOLEAN :
       /\ UnlinkMay(uOk)
       /\ LET got == chi.i < Len(stdin.elems)
              v == stdin.elems[chi.i + 1]
              last == chi.i + 1 = chi.num
              calls == IF got THEN <<>> ELSE ChildBailCalls(transport, chi.fds, mOk, cOk, uOk)
          IN
          /\ chi' = IF ~got THEN ExitOf(chi, "exit_fail")
                    ELSE IF transport = "shm"
                    THEN [chi EXCEPT !.i = @ + 1, !.pc = IF last THEN "c_finish" ELSE @]
                    ELSE [chi EXCEPT !.i = @ + 1, !.arr = Append(@, v),
                                     !.pc = IF last THEN "c_write_num" ELSE @,
                                     !.buf = IF last THEN IntBytes(chi.num) ELSE @,
                                     !.bytes = IF last THEN SizeofInt ELSE @,
                                     !.total = 0]
          /\ shm' = IF got /\ transport = "shm" THEN [shm EXCEPT ![chi.i + 2] = v] ELSE shm
          /\ hist' = [hist EXCEPT !.envFail = @ \/ ~got \/ AnyFailed(calls),
                                  !.stores = IF got /\ transport = "shm" THEN @ \cup {chi.i + 1} ELSE @]
          /\ named' = NamedAfter(named, calls)
          /\ log' = log \o calls
  /\ UNCHANGED <<cfgVars, par, chan>>

\* `num * sizeof(int)`: the size of the payload, for malloc and for the
\* second write_all / read_all
PayloadBytesUnscaled(num) == num
PayloadBytes(num) == num * SizeofInt

\* What write(fd, ptr + total, bytes - total) may answer while a read
\* descriptor is left: an error or as much as the buffer has room for (with no
\* room and no error the call blocks). With no read descriptor left the write
\* raises SIGPIPE, which no program here handles or ignores: the writer is
\* ended by the signal inside the call.
ReadEndOpen == "r" \in par.fds \/ "r" \in chi.fds \/ par.pc = "p_open_wait"
WriteResults(n) ==
  IF ~ReadEndOpen THEN {-1}
  ELSE PrimResults(n, ChanCap - Len(chan))

\* One pass of the loop of write_all, for `write_all(fd, &num, sizeof(int))`
\* and then `write_all(fd, arr, num * sizeof(int))`; a -1 return leads to
\* free(arr) and exit (after close_fd(fd) in the FIFO program)
ChildWrite ==
  /\ chi.pc \in {"c_write_num", "c_write_arr"}
  /\ LoopTest(chi.total, chi.bytes)
  /\ \E r \in WriteResults(chi.bytes - chi.total), cOk \in BOOLEAN :
       LET sigpipe == ~ReadEndOpen
           failed == PrimFailed(r)
           calls == IF failed /\ ~sigpipe /\ transport = "fifo"
                    THEN close_fd("child", cOk) ELSE <<>>
           total == Advance(chi.total, r)
           done == ~LoopTest(total, chi.bytes)
       IN
       /\ chi' = IF sigpipe THEN ExitOf(chi, "killed")
                 ELSE IF failed THEN ExitOf(chi, "exit_fail")
                 ELSE IF ~done THEN [chi EXCEPT !.total = total]
                 ELSE IF chi.pc = "c_write_num" /\ LoopTest(0, PayloadBytes(chi.num))
                 THEN [chi EXCEPT !.pc = "c_write_arr", !.buf = ArrBytes(chi.arr),
                                  !.bytes = PayloadBytes(chi.num), !.total = 0]
                 ELSE [chi EXCEPT !.pc = "c_finish", !.total = total]
       /\ chan' = IF r <= 0 THEN chan ELSE chan \o SubSeq(chi.buf, chi.total + 1, chi.total + r)
       /\ hist' = [hist EXCEPT !.ioBroken = @ \/ r <= 0, !.wcalled = TRUE,
                               !.partial = @ \/ (0 < r /\ r < chi.bytes - chi.total),
                               !.sent = IF r <= 0 THEN @ ELSE @ + r,
                               !.envFail = @ \/ AnyFailed(calls)]
       /\ log' = log \o calls
  /\ UNCHANGED <<cfgVars, named, par, shm>>

\* The end of the child: `free(arr)` and `check_result(close(fd[WRITE_END]), "close")`
\* (pipe), `free(arr); close_fd(fd);` (FIFO), `cleanup_shm(ptr, shm_fd, 0)`
\* (shared memory); then main returns
ChildFinish ==
  /\ chi.pc = "c_finish"
  /\ \E mOk, cOk, uOk \in BOOLEAN :
       /\ UnlinkMay(uOk)
       /\ LET calls == IF IsPipe(transport) THEN <<Call("child", "close_w", cOk)>>
                       ELSE IF transport = "fifo" THEN close_fd("child", cOk)
                       ELSE cleanup_shm("child", chi.fds, 0, mOk, cOk, uOk)
          IN
          /\ chi' = ExitOf(chi, IF CloseFatal(transport) /\ ~cOk THEN "exit_fail" ELSE "exit_ok")
          /\ hist' = [hist EXCEPT !.envFail = @ \/ AnyFailed(calls)]
          /\ named' = NamedAfter(named, calls)
          /\ log' = log \o calls
  /\ UNCHANGED <<cfgVars, par, chan, shm>>

----------------------------------------------------------------------------
(* The parent: the consumer *)

\* pipe main, parent branch: `check_result(close(fd[WRITE_END]), "close");`
\* (inline: `close(fd[WRITE_END]);`)
\* then parent_process starts `read_all(read_fd, &num, sizeof(int))`
PipeParentCloseWrite ==
  /\ IsPipe(transport) /\ par.pc = "p_close_w"
  /\ \E ok \in BOOLEAN :
       /\ par' = IF ok \/ ~CloseFatal(transport)
                 THEN [par EXCEPT !.pc = "p_read_num", !.fds = CloseEnd(@, "w"),
                                        !.buf = <<>>, !.bytes = SizeofInt, !.total = 0]
                 ELSE ExitOf(par, "exit_fail")
       /\ log' = Append(log, Call("parent", "close_w", ok))
       /\ hist' = [hist EXCEPT !.envFail = @ \/ ~ok]
  /\ UNCHANGED <<cfgVars, named, chi, chan, shm>>

\* FIFO parent: `open(FIFO_PATH, O_RDONLY)` is entered; on failure
\* cleanup_fifo() and exit
FifoParentOpenEnter ==
  /\ transport = "fifo" /\ par.pc = "p_open"
  /\ \E ok, uOk \in BOOLEAN :
       /\ ok => named
       /\ UnlinkMay(uOk)
       /\ LET calls == IF ok THEN <<>>
                       ELSE <<Call("parent", "open", FALSE)>> \o cleanup_fifo("parent", uOk) IN
          /\ par' = IF ok THEN [par EXCEPT !.pc = "p_open_wait"] ELSE ExitOf(par, "exit_fail")
          /\ named' = NamedAfter(named, calls)
          /\ log' = log \o calls
       /\ hist' = [hist EXCEPT !.envFail = @ \/ ~ok]
  /\ UNCHANGED <<cfgVars, chi, chan, shm>>

\* The read-side open returns once the write side is being opened or was opened
WriterPresentAlways == TRUE
WriterPresent == chi.pc = "c_open_wait" \/ hist.wOpened

FifoParentOpenReturn ==
  /\ transport = "fifo" /\ par.pc = "p_open_wait"
  /\ WriterPresent
  /\ par' = [par EXCEPT !.pc = "p_read_num", !.fds = {"r"},
                        !.buf = <<>>, !.bytes = SizeofInt, !.total = 0]
  /\ log' = Append(log, Call("parent", "open", TRUE))
  /\ hist' = [hist EXCEPT !.rOpened = TRUE]
  /\ UNCHANGED <<cfgVars, named, chi, chan, shm>>

\* What read(fd, ptr + total, bytes - total) may answer: part of what the
\* buffer holds, end-of-stream (0) when it is empty and no write descriptor is
\* left, or an error (with an empty buffer, a writer and no error it blocks)
WriteEndOpen == "w" \in par.fds \/ "w" \in chi.fds \/ chi.pc = "c_open_wait"
ReadResults(n) ==
  IF chan # <<>> THEN {-1} \cup (1..Min(n, Len(chan)))
  ELSE IF ~WriteEndOpen THEN {0, -1}
  ELSE {-1}

\* What the parent does before exit(EXIT_FAILURE) once it holds the read
\* descriptor: nothing in the pipe program (check_result exits), close_fd(fd)
\* and cleanup_fifo() in the FIFO program
ParentBailCallsNoUnlink(t, cOk, uOk) ==
  IF t = "fifo" THEN close_fd("parent", cOk) ELSE <<>>
ParentBailCalls(t, cOk, uOk) ==
  IF t = "fifo" THEN close_fd("parent", cOk) \o cleanup_fifo("parent", uOk) ELSE <<>>

\* `check_result(read_all(...), "read_all")` / `if (read_all(...) == -1)`
ReadAllFailedNever(ret) == FALSE
ReadAllFailed(ret) == ret = -1

\* The test the consumer makes on the count it got: the shared-memory
\* parent_process has `if (num <= 0 || num > (int)(BUFFER_SIZE / sizeof(int)) - 1)`;
\* the pipe and the FIFO parent_process go from read_all straight to malloc
ConsumerInvalidEverywhere(t, num) == InvalidCount(t, num)
ConsumerInvalid(t, num) == t = "shm" /\ InvalidCount(t, num)

\* One pass of the loop of read_all, for `read_all(fd, &num, sizeof(int))` and
\* then `read_all(fd, arr, num * sizeof(int))`; a -1 return ends the parent
\* (after close_fd(fd) and cleanup_fifo() in the FIFO program)
ParentRead ==
  /\ par.pc \in {"p_read_num", "p_read_arr"}
  /\ LoopTest(par.total, par.bytes)
  /\ \E r \in ReadResults(par.bytes - par.total), cOk, uOk \in BOOLEAN :
       /\ UnlinkMay(uOk)
       /\ LET total == Advance(par.total, r)
              got == IF r <= 0 THEN par.buf ELSE par.buf \o SubSeq(chan, 1, r)
              done == PrimFailed(r) \/ ~LoopTest(total, par.bytes)
              ret == IF PrimFailed(r) THEN -1 ELSE total
              failed == \/ done /\ ReadAllFailed(ret)
                        \/ /\ done /\ ~PrimFailed(r) /\ par.pc = "p_read_num"
                           /\ ConsumerInvalid(transport, BytesInt(Filled(got, SizeofInt)))
              calls == IF failed THEN ParentBailCalls(transport, cOk, uOk) ELSE <<>>
          IN
          /\ par' = IF failed THEN ExitOf(par, "exit_fail")
                    ELSE IF ~done THEN [par EXCEPT !.total = total, !.buf = got]
                    ELSE IF par.pc = "p_read_num"
                    THEN [par EXCEPT !.pc = "p_malloc", !.total = total, !.buf = got,
                                     !.num = BytesInt(Filled(got, SizeofInt))]
                    ELSE [par EXCEPT !.pc = "p_print", !.total = total, !.buf = got,
                                     !.arr = BytesArr(Filled(got, par.bytes))]
          /\ chan' = IF r <= 0 THEN chan ELSE SubSeq(chan, r + 1, Len(chan))
          /\ hist' = [hist EXCEPT !.ioBroken = @ \/ r <= 0,
                                  !.partial = @ \/ (0 < r /\ r < par.bytes - par.total),
                                  !.envFail = @ \/ AnyFailed(calls)]
          /\ named' = NamedAfter(named, calls)
          /\ log' = log \o calls
  /\ UNCHANGED <<cfgVars, chi, shm>>

\* `malloc(num * sizeof(int))`: NULL ends the parent; a request of a negative
\* num (a huge size_t) is never granted; a request of 0 bytes needs no read
ParentMalloc ==
  /\ par.pc = "p_malloc"
  /\ \E ok, cOk, uOk \in BOOLEAN :
       /\ ok => par.num >= 0
       /\ UnlinkMay(uOk)
       /\ LET calls == IF ok THEN <<>>
                       ELSE <<Call("parent", "malloc", FALSE)>>
                            \o ParentBailCalls(transport, cOk, uOk) IN
          /\ par' = IF ~ok THEN ExitOf(par, "exit_fail")
                    ELSE [par EXCEPT !.pc = IF par.num = 0 THEN "p_print" ELSE "p_read_arr",
                                     !.arr = <<>>, !.buf = <<>>,
                                     !.bytes = PayloadBytes(par.num), !.total = 0]
          /\ named' = NamedAfter(named, calls)
          /\ log' = log \o calls
          /\ hist' = [hist EXCEPT !.envFail = @ \/ ~ok \/ AnyFailed(calls)]
  /\ UNCHANGED <<cfgVars, chi, chan, shm>>

\* `for (i = 0; i < num; i++) printf("%d ", arr[i]);` and `free(arr)`; the FIFO
\* program then runs close_fd(fd) and cleanup_fifo() before it waits, the
\* inline pipe program `close(fd[READ_END])`
ParentPrint ==
  /\ par.pc = "p_print"
  /\ \E cOk, uOk \in BOOLEAN :
       /\ UnlinkMay(uOk)
       /\ LET calls == IF transport = "pipe_inline" THEN <<Call("parent", "close_r", cOk)>>
                       ELSE ParentBailCalls(transport, cOk, uOk) IN
          /\ par' = [par EXCEPT !.pc = "p_wait", !.out = SubSeq(par.arr, 1, par.num),
                                !.printed = TRUE,
                                !.fds = IF transport = "fifo" THEN {}
                                        ELSE IF transport = "pipe_inline" THEN CloseEnd(@, "r")
                                        ELSE @]
          /\ named' = NamedAfter(named, calls)
          /\ log' = log \o calls
          /\ hist' = [hist EXCEPT !.envFail = @ \/ AnyFailed(calls)]
  /\ UNCHANGED <<cfgVars, chi, chan, shm>>

\* wait(NULL) returns the pid of a terminated child, blocking until there is
\* one, or -1 when it is interrupted
WaitResultsNoBlock == {ChildPid, -1}
WaitResults == (IF Exited(chi) THEN {ChildPid} ELSE {}) \cup {-1}

\* pipe parent: `check_result(wait(NULL), "wait");` and back in main
\* `check_result(close(fd[READ_END]), "close");`; the inline pipe program ends
\* with `wait(NULL);`, result ignored
PipeParentWait ==
  /\ IsPipe(transport) /\ par.pc = "p_wait"
  /\ \E r \in WaitResults, cOk \in BOOLEAN :
       LET calls == <<Call("parent", "wait", r # -1)>>
                    \o (IF transport = "pipe" /\ r # -1
                        THEN <<Call("parent", "close_r", cOk)>> ELSE <<>>) IN
       /\ par' = ExitOf([par EXCEPT !.waited = r],
                        IF transport = "pipe" /\ (r = -1 \/ ~cOk) THEN "exit_fail"
                        ELSE "exit_ok")
       /\ log' = log \o calls
       /\ hist' = [hist EXCEPT !.envFail = @ \/ AnyFailed(calls)]
  /\ UNCHANGED <<cfgVars, named, chi, chan, shm>>

\* FIFO parent: `if (wait(NULL) == -1) perror("wait");` and main returns EXIT_SUCCESS
FifoParentWait ==
  /\ transport = "fifo" /\ par.pc = "p_wait"
  /\ \E r \in WaitResults :
       /\ par' = ExitOf([par EXCEPT !.waited = r], "exit_ok")
       /\ log' = Append(log, Call("parent", "wait", r # -1))
       /\ hist' = [hist EXCEPT !.envFail = @ \/ r = -1]
  /\ UNCHANGED <<cfgVars, named, chi, chan, shm>>

\* shared-memory parent: `if (wait(NULL) != 0) { ...; exit(EXIT_FAILURE); }`
WaitFailed(r) == r # 0

\* parent_process of the shared-memory program: the wait, then the count in
\* slot 0, its bound, the print of slots 1..num, and cleanup_shm(ptr, shm_fd, 1)
\* on every path
ShmParentWait ==
  /\ transport = "shm" /\ par.pc = "p_wait"
  /\ \E r \in WaitResults, mOk, cOk, uOk \in BOOLEAN :
       /\ UnlinkMay(uOk)
       /\ LET calls == <<Call("parent", "wait", r # -1)>>
                       \o cleanup_shm("parent", par.fds, 1, mOk, cOk, uOk)
              num == shm[1]
              arr == [k \in 1..num |-> shm[k + 1]]
          IN
          /\ par' = IF WaitFailed(r) THEN ExitOf([par EXCEPT !.waited = r], "exit_fail")
                    ELSE IF ConsumerInvalid(transport, num)
                    THEN ExitOf([par EXCEPT !.waited = r, !.num = num], "exit_fail")
                    ELSE ExitOf([par EXCEPT !.waited = r, !.num = num, !.arr = arr,
                                            !.out = arr, !.printed = TRUE], "exit_ok")
          /\ hist' = [hist EXCEPT !.envFail = @ \/ AnyFailed(calls),
                                  !.loads = IF WaitFailed(r) THEN @
                                            ELSE IF ConsumerInvalid(transport, num) THEN {0}
                                            ELSE 0..num]
          /\ named' = NamedAfter(named, calls)
          /\ log' = log \o calls
  /\ UNCHANGED <<cfgVars, chi, chan, shm>>

Next ==
  \/ PipeMainPipe \/ FifoMainMkfifo \/ ShmMainOpen \/ ShmMainFtruncate \/ ShmMainMmap
  \/ MainFork
  \/ PipeChildCloseRead \/ FifoChildOpenEnter \/ FifoChildOpenReturn
  \/ ChildScanNum \/ ChildMalloc \/ ChildScanElem \/ ChildWrite \/ ChildFinish
  \/ PipeParentCloseWrite \/ FifoParentOpenEnter \/ FifoParentOpenReturn
  \/ ParentRead \/ ParentMalloc \/ ParentPrint
  \/ PipeParentWait \/ FifoParentWait \/ ShmParentWait

Spec == Init /\ [][Next]_vars

\* The scheduler keeps running a process that can take a step: a session does
\* not stop while a step of either process is possible
SpecFair == Init /\ [][Next]_vars /\ WF_vars(Next)

\* The same programs run on the largest message only
SpecBoundary == InitBoundary /\ [][Next]_vars


----------------------------------------------------------------------------
(* Properties of the session *)

Unlinks == {k \in 1..Len(log) : log[k].op \in {"unlink", "shm_unlink"}}
CallsOf(p, op) == {k \in 1..Len(log) : log[k].p = p /\ log[k].op = op}
ForkSucceeded == \E k \in CallsOf("parent", "fork") : log[k].ok

\* The producer's input is a whole message {count, payload}
WholeInput == stdin.numOk /\ stdin.num >= 1 /\ Len(stdin.elems) = stdin.num

\* The producer handed over its whole message: count and all count elements
ProducerComplete ==
  /\ chi.num >= 1
  /\ IF transport = "shm" THEN hist.stores = 0..chi.num
     ELSE hist.sent = SizeofInt + chi.num * SizeofInt

\* The bytes of the message {count, payload} in the order the child writes them
Stream == IntBytes(stdin.num) \o ArrBytes(stdin.elems)

\* The bytes of the message the parent has taken out of the channel so far
Received ==
  IF par.pc = "p_read_num" THEN par.buf ELSE IntBytes(par.num) \o par.buf

IsPrefix(s, t) == Len(s) <= Len(t) /\ s = SubSeq(t, 1, Len(s))

\* C1: pipe and FIFO round trip. For a count in [1, 256] and a payload of that
\* length, when no read / write call returned a non-positive result (and no
\* other call of the session failed), however the calls split the transfer:
\* while the parent reads, what it has received followed by what is in flight
\* is a prefix of the message, in order; and a parent that has terminated holds
\* exactly the count and the elements the child sent, in order, has printed
\* them, and both processes ended successfully.
C1_RoundTrip ==
  ( /\ transport \in {"pipe", "fifo"}
    /\ WholeInput /\ stdin.num <= 256
    /\ ~hist.ioBroken /\ ~hist.envFail ) =>
       /\ par.pc \in {"p_read_num", "p_read_arr"} => IsPrefix(Received \o chan, Stream)
       /\ Exited(par) =>
            /\ par.pc = "exit_ok" /\ chi.pc = "exit_ok"
            /\ par.num = stdin.num
            /\ par.arr = stdin.elems
            /\ par.printed /\ par.out = stdin.elems
            /\ chan = <<>>

C1_Witness ==
  /\ transport = "fifo" /\ stdin.num = MaxCount /\ stdin.elems = [k \in 1..MaxCount |-> IF k = 1 THEN 258 ELSE -1]
  /\ hist.partial /\ ~hist.ioBroken /\ ~hist.envFail
  /\ par.pc = "exit_ok" /\ par.out = stdin.elems

\* C2: shared memory end to end. When the child stored a whole message and
\* exited, and the parent's wait returned the child's pid, the parent reads
\* back that count and payload and ends successfully.
C2_ShmEndToEnd ==
  ( /\ transport = "shm"
    /\ WholeInput /\ stdin.num <= 255
    /\ chi.pc = "exit_ok"
    /\ par.waited = ChildPid
    /\ Exited(par) ) =>
       /\ par.pc = "exit_ok"
       /\ par.num = stdin.num
       /\ par.out = stdin.elems

\* C3: shared-memory phase separation. The parent loads no word of the segment
\* while the child is alive, and it gets past its wait with the child's pid
\* only once the child has terminated.
C3_PhaseSeparation ==
  transport = "shm" =>
     /\ (hist.loads # {} => Exited(chi))
     /\ (par.waited = ChildPid => Exited(chi))

C3_Witness ==
  /\ transport = "shm" /\ par.waited = ChildPid /\ chi.pc = "exit_ok"
  /\ hist.stores = 0..MaxCount

\* C4: a count that is <= 0 or above the capacity limit (256 for the pipe and
\* the FIFO, 255 for shared memory) is rejected without side effect: the child
\* never gets past the check, ends in failure once it has run it, issues no
\* write and stores nothing in the segment, not even the count.
C4_InvalidCountNoEffect ==
  ( /\ transport \in Transports /\ stdin.numOk
    /\ (stdin.num <= 0 \/ stdin.num > (IF transport = "shm" THEN 255 ELSE 256)) ) =>
       /\ ~hist.wcalled /\ hist.sent = 0 /\ chan = <<>>
       /\ hist.stores = {}
       /\ hist.gate \in {"none", "rejected"}
       /\ (hist.gate = "rejected" => chi.pc = "exit_fail")
       /\ chi.pc \notin {"c_malloc", "c_scan_elem", "c_write_num", "c_write_arr", "c_finish", "exit_ok"}

C4_Witness ==
  /\ transport = "shm" /\ stdin.numOk /\ stdin.num = 256
  /\ hist.gate = "rejected" /\ chi.pc = "exit_fail" /\ hist.stores = {}

\* C5: capacity boundary. With capacity 1024 / 4 - reserved (256 for the pipe
\* and the FIFO, 255 for shared memory) the producer's check accepts a count
\* equal to the capacity and rejects the capacity plus one.
C5_CapacityBoundary ==
  (transport \in Transports /\ stdin.numOk /\ hist.gate # "none") =>
     LET cap == (1024 \div 4) - (IF transport = "shm" THEN 1 ELSE 0) IN
     /\ (stdin.num = cap => hist.gate = "accepted" /\ chi.num = cap)
     /\ (stdin.num = cap + 1 => hist.gate = "rejected" /\ chi.pc = "exit_fail")

C5_Witness ==
  /\ transport = "shm" /\ stdin.numOk /\ stdin.num = 255
  /\ hist.gate = "accepted" /\ shm[1] = 255

\* C8: no partial message is delivered. The parent prints elements only when
\* the child handed over its whole message (the count and all count elements),
\* and it ends successfully only after printing; so a transfer that breaks
\* after the count leaves nothing delivered and the parent failed.
C8_NoPartialDelivery ==
  transport \in Transports =>
     /\ (par.printed => ProducerComplete /\ par.num = chi.num /\ Len(par.out) = chi.num)
     /\ (par.pc = "exit_ok" => par.printed)
     /\ (Exited(par) /\ Exited(chi) /\ hist.gate = "accepted" /\ ~ProducerComplete
           => ~par.printed /\ par.out = <<>> /\ par.pc = "exit_fail")

C8_Witness ==
  /\ transport = "pipe" /\ hist.sent > SizeofInt /\ hist.sent < SizeofInt + chi.num * SizeofInt
  /\ chi.pc = "exit_fail" /\ par.pc = "exit_fail" /\ par.num = chi.num /\ ~par.printed

\* C9: the peer never unlinks. Every unlink of the FIFO path and every
\* shm_unlink of the segment name is issued by the parent, never by the child,
\* on any exit path.
C9_PeerNeverUnlinks ==
  \A k \in Unlinks : log[k].p = "parent"

C9_Witness ==
  /\ transport = "shm" /\ chi.pc = "exit_fail" /\ CallsOf("child", "close") # {}
  /\ CallsOf("parent", "shm_unlink") # {} /\ Exited(par)

\* C10 as stated: in a session where the FIFO path or the segment name already
\* existed, no process unlinks that name.
C10_UnlinkOnlyIfCreated ==
  preExisted => Unlinks = {}

\* C10 as amended: the unlink does not depend on who created the name. In a
\* session where the name already existed, only the parent unlinks it, at most
\* once, and once fork has succeeded the parent does not terminate without
\* having called unlink / shm_unlink.
C10_ParentUnlinksRegardless ==
  (transport \in {"fifo", "shm"} /\ preExisted) =>
     /\ \A k \in Unlinks : log[k].p = "parent"
     /\ Cardinality(Unlinks) <= 1
     /\ (ForkSucceeded /\ Exited(par) => Cardinality(Unlinks) = 1)

C10_Witness ==
  /\ transport = "fifo" /\ preExisted /\ par.pc = "exit_ok"
  /\ \E k \in CallsOf("parent", "mkfifo") : log[k].res = "EEXIST"
  /\ \E k \in CallsOf("parent", "unlink") : log[k].ok


\* A call of process p on op that succeeded
Succeeded(p, op) == \E k \in CallsOf(p, op) : log[k].ok

\* C11 as stated: whenever the parent of the shared-memory program has
\* terminated after shm_open succeeded, by any exit, it has called shm_unlink
\* on the segment name.
C11_ShmNameRemoved ==
  (transport = "shm" /\ Succeeded("parent", "shm_open") /\ Exited(par)) =>
     CallsOf("parent", "shm_unlink") # {}

\* C12: whenever the parent of the FIFO program has terminated after the path
\* existed (mkfifo succeeded or reported EEXIST), on fork failure, open failure,
\* read failure, allocation failure or normal completion, it has called unlink
\* on the path, exactly once.
C12_FifoNameRemoved ==
  ( /\ transport = "fifo" /\ Exited(par)
    /\ \E k \in CallsOf("parent", "mkfifo") : log[k].res \in {"ok", "EEXIST"} ) =>
       Cardinality(CallsOf("parent", "unlink")) = 1

C12_Witness ==
  /\ transport = "fifo" /\ par.pc = "exit_fail" /\ chi.pc = "unborn"
  /\ \E k \in CallsOf("parent", "fork") : ~log[k].ok
  /\ CallsOf("parent", "unlink") # {}

\* The handles a process has acquired, from the calls that succeeded: the
\* child inherits at fork what the parent held, and each FIFO end is opened by
\* its own process.
Acquired(p) ==
  IF p = "child" /\ ~ForkSucceeded THEN {}
  ELSE (IF Succeeded("parent", "pipe") THEN {"r", "w"} ELSE {})
       \cup (IF Succeeded("parent", "shm_open") THEN {"fd"} ELSE {})
       \cup (IF Succeeded("parent", "mmap") THEN {"map"} ELSE {})
       \cup (IF transport = "fifo" /\ Succeeded(p, "open")
             THEN {IF p = "parent" THEN "r" ELSE "w"} ELSE {})

\* The calls that give a handle back
ReleaseOps(h) ==
  IF h = "map" THEN {"munmap"}
  ELSE IF h = "fd" THEN {"close"}
  ELSE IF transport = "fifo" THEN {"close"}
  ELSE IF h = "r" THEN {"close_r"} ELSE {"close_w"}

Released(p) == {h \in Acquired(p) : \E op \in ReleaseOps(h) : CallsOf(p, op) # {}}

Failed(p, op) == \E k \in CallsOf(p, op) : ~log[k].ok

C15_MkfifoOutcome ==
  transport = "fifo" =>
    \A k \in CallsOf("parent", "mkfifo") :
       /\ log[k].res = "other" =>
             par.pc = "exit_fail" /\ chi.pc = "unborn" /\ Len(log) = 1
       /\ (log[k].res \in {"ok", "EEXIST"} /\ Len(log) = 1) =>
             par.pc = "fork" /\ par.fds = {} /\ chi.pc = "unborn" /\ named
       /\ log[k].res = "EEXIST" => preExisted

C15_Witness ==
  /\ transport = "fifo" /\ log # <<>> /\ log[1].op = "mkfifo" /\ log[1].res = "EEXIST"
  /\ Succeeded("parent", "fork") /\ Succeeded("parent", "open") /\ Succeeded("child", "open")
  /\ stdin.num = 1 /\ par.printed /\ par.out = stdin.elems
  /\ par.pc = "exit_ok" /\ chi.pc = "exit_ok"

\* The process is inside open() on its side of the FIFO or has it open
ReadSideOpened == par.pc = "p_open_wait" \/ hist.rOpened
WriteSideOpened == chi.pc = "c_open_wait" \/ hist.wOpened

\* C16: FIFO first-open rendezvous. The child's open of the write side has
\* returned only if the parent has opened the read side (it is in its open or
\* past it), and the parent's open has returned only if the child has opened
\* the write side; so whenever either process is past its open, has collected
\* input, or a byte has been written or read, both sides are open.
C16_OpenRendezvous ==
  transport = "fifo" =>
    /\ hist.wOpened => ReadSideOpened
    /\ hist.rOpened => WriteSideOpened
    /\ chi.pc \in {"c_scan_num", "c_malloc", "c_scan_elem", "c_write_num", "c_write_arr", "c_finish"}
         => hist.wOpened /\ ReadSideOpened
    /\ par.pc \in {"p_read_num", "p_malloc", "p_read_arr", "p_print"}
         => hist.rOpened /\ WriteSideOpened
    /\ (hist.gate # "none" \/ hist.wcalled \/ hist.sent > 0 \/ chan # <<>> \/ par.buf # <<>>)
         => ReadSideOpened /\ WriteSideOpened

C16_Witness ==
  /\ transport = "fifo" /\ hist.wOpened /\ hist.rOpened
  /\ chi.pc = "c_write_arr" /\ par.pc = "p_read_arr" /\ par.buf # <<>>

\* C17: the FIFO consumer blocks without a producer. While the parent is in
\* its open of the read side and no writer has opened the FIFO, no step changes
\* the parent or adds an unlink: it stays in open, reads nothing, unlinks
\* nothing and does not terminate, for as long as the producer does not open.
C17_ConsumerBlocksWithoutProducer ==
  [][ (transport = "fifo" /\ par.pc = "p_open_wait" /\ ~WriteSideOpened) =>
        /\ par' = par
        /\ chan' = chan
        /\ \A k \in 1..Len(log') : log'[k].op = "unlink" => k <= Len(log) ]_vars

C17_Witness ==
  /\ transport = "fifo" /\ par.pc = "p_open_wait" /\ chi.pc = "exit_fail"
  /\ ~hist.wOpened /\ Failed("child", "open") /\ Unlinks = {}

\* C19: pipe role split, in both pipe programs. Whenever the child has got
\* past its first close (it collects input or writes) it no longer holds the
\* read end, and whenever the parent reads it no longer holds the write end;
\* so once the child is gone no write descriptor is left, and a parent that
\* waits in read with nothing in the pipe is given end-of-stream (0).
C19_PipeRoleSplit ==
  IsPipe(transport) =>
    /\ chi.pc \in {"c_scan_num", "c_malloc", "c_scan_elem", "c_write_num", "c_write_arr", "c_finish"}
         => chi.fds = {"w"}
    /\ (hist.gate # "none" \/ hist.wcalled) => "r" \notin chi.fds
    /\ par.pc \in {"p_read_num", "p_malloc", "p_read_arr", "p_print"} => par.fds = {"r"}
    /\ par.buf # <<>> => "w" \notin par.fds
    /\ (Exited(chi) /\ par.pc \in {"p_read_num", "p_read_arr"}) =>
          /\ ~WriteEndOpen
          /\ (chan = <<>> /\ LoopTest(par.total, par.bytes))
                => 0 \in ReadResults(par.bytes - par.total)

C19_Witness ==
  /\ transport = "pipe_inline" /\ chi.pc = "exit_fail" /\ hist.sent = SizeofInt
  /\ par.pc = "p_read_arr" /\ chan = <<>> /\ par.buf = <<>>
  /\ 0 \in ReadResults(par.bytes - par.total)

\* The setup calls of main, in order, and whether the transport stands after
\* the first n calls in the log: every call returned success, or mkfifo found
\* the path already there
SetupOps(t) ==
  IF IsPipe(t) THEN <<"pipe">>
  ELSE IF t = "fifo" THEN <<"mkfifo">>
  ELSE <<"shm_open", "ftruncate", "mmap">>

SetupDone(n) ==
  /\ n = Len(SetupOps(transport))
  /\ Len(log) >= n
  /\ \A k \in 1..n :
       /\ log[k].p = "parent" /\ log[k].op = SetupOps(transport)[k]
       /\ log[k].ok \/ (log[k].op = "mkfifo" /\ log[k].res = "EEXIST")

\* C20: transport setup precedes the role split. fork is called only after
\* pipe() (pipe programs), mkfifo (FIFO; returned 0 or found the path there)
\* or shm_open, ftruncate and mmap (shared memory) have all gone through, as
\* the call right after them; a child exists only after that and starts with
\* the descriptors and the mapping set up; when a setup call fails no fork is
\* called and no child ever exists.
C20_SetupBeforeFork ==
  /\ \A k \in CallsOf("parent", "fork") :
        k = Len(SetupOps(transport)) + 1 /\ SetupDone(k - 1)
  /\ chi.pc # "unborn" =>
        /\ ForkSucceeded /\ SetupDone(Len(SetupOps(transport)))
        /\ transport = "fifo" => preExisted \/ Succeeded("parent", "mkfifo")
        /\ IsPipe(transport) => Acquired("child") = {"r", "w"}
        /\ transport = "shm" => Acquired("child") = {"fd", "map"}
  /\ (\E k \in 1..Len(log) :
         /\ log[k].op \in {"pipe", "mkfifo", "shm_open", "ftruncate", "mmap"}
         /\ ~log[k].ok /\ ~(log[k].op = "mkfifo" /\ log[k].res = "EEXIST"))
       => chi.pc = "unborn" /\ CallsOf("parent", "fork") = {} /\ par.pc = "exit_fail"

C20_Witness ==
  /\ transport = "shm" /\ chi.pc = "c_scan_elem" /\ chi.fds = {"fd", "map"}
  /\ SetupDone(3) /\ log[4].op = "fork" /\ log[4].ok /\ shm[1] = stdin.num

Procs == {"parent", "child"}
CloseOps == {"close", "close_r", "close_w", "munmap"}

\* The handle a process moves data through, and where in its code it does so
DataHandle(p) ==
  IF transport = "shm" THEN "map" ELSE IF p = "parent" THEN "r" ELSE "w"
UsesData(p) ==
  IF p = "child"
  THEN chi.pc \in (IF transport = "shm" THEN {"c_scan_num", "c_scan_elem"}
                   ELSE {"c_write_num", "c_write_arr"})
  ELSE par.pc \in (IF transport = "shm" THEN {"p_wait"} ELSE {"p_read_num", "p_read_arr"})

\* C21: exactly-once teardown and endpoint lifecycle, in every transport. Each
\* process issues each close (of the read end, of the write end, of its one
\* descriptor) and the munmap at most once; the name is unlinked at most once
\* in the session; a process that is about to write, read, store or load still
\* holds the handle it uses and has not closed / unmapped it; and once the
\* shared-memory parent or a child has released its data handle it has ended.
C21_ExactlyOnceTeardown ==
  /\ \A p \in Procs : \A op \in CloseOps : Cardinality(CallsOf(p, op)) <= 1
  /\ Cardinality(Unlinks) <= 1
  /\ \A p \in Procs :
       UsesData(p) =>
          /\ DataHandle(p) \in (IF p = "parent" THEN par.fds ELSE chi.fds)
          /\ \A op \in ReleaseOps(DataHandle(p)) : CallsOf(p, op) = {}
  /\ (\E op \in ReleaseOps(DataHandle("child")) : CallsOf("child", op) # {}) => Exited(chi)
  /\ (\E op \in ReleaseOps(DataHandle("parent")) : CallsOf("parent", op) # {}) =>
        Exited(par) \/ (transport \in {"fifo", "pipe_inline"} /\ par.pc = "p_wait")
  /\ (transport = "shm" /\ hist.loads # {}) =>
        \A k \in CallsOf("parent", "munmap") : \E w \in CallsOf("parent", "wait") : w < k

C21_Witness ==
  /\ transport = "shm" /\ chi.pc = "exit_ok" /\ par.pc = "exit_fail" /\ par.waited = ChildPid
  /\ \A p \in Procs : Cardinality(CallsOf(p, "munmap")) = 1 /\ Cardinality(CallsOf(p, "close")) = 1
  /\ Cardinality(Unlinks) = 1 /\ hist.stores = 0..MaxCount

\* The parent holds the message: its reads of the count and of the payload
\* have completed (pipe, FIFO) or it has loaded the slots (shared memory)
ParentHasMessage ==
  IF transport = "shm" THEN par.printed
  ELSE par.pc \in {"p_print", "p_wait"} \/ par.printed

\* C22: completion synchronization, in every transport. A parent that has
\* obtained the message and has terminated did so after the child terminated,
\* unless its wait call failed (returned -1); and with the message in hand it
\* terminates through its wait only.
C22_ParentOutlivesChild ==
  /\ (ParentHasMessage /\ Exited(par)) => (Exited(chi) \/ par.waited = -1)
  /\ (ParentHasMessage /\ Exited(par)) => CallsOf("parent", "wait") # {}
  /\ (ParentHasMessage /\ par.pc = "exit_ok" /\ transport = "pipe") => Exited(chi)

C22_Witness ==
  /\ transport = "pipe_inline" /\ par.printed /\ par.out = stdin.elems /\ stdin.num = MaxCount
  /\ par.pc = "exit_ok" /\ par.waited = ChildPid /\ Exited(chi)

\* How many bytes of the channel the parent has consumed, where its state
\* tells: while it reads the count, between the two reads, and from the
\* payload read on
BytesReadKnown ==
  par.pc \in {"p_read_num", "p_malloc", "p_read_arr", "p_print", "p_wait"} \/ par.printed
BytesRead ==
  IF par.pc \in {"p_read_num", "p_malloc"} THEN Len(par.buf)
  ELSE SizeofInt + Len(par.buf)

\* C24: wire framing and byte conservation, pipe and FIFO. The child writes
\* the four bytes of the count before any payload byte and ends its writes
\* with exactly 4 + 4 * count bytes sent; the parent reads four bytes, decodes
\* the count, then reads exactly 4 * count bytes; bytes written are bytes read
\* plus bytes in flight; and when the parent has completed, it has read as many
\* bytes as were written and the channel is empty.
C24_WireFraming ==
  transport \in {"pipe", "pipe_inline", "fifo"} =>
    /\ chi.pc = "c_write_num" => chi.bytes = 4 /\ chi.buf = IntBytes(chi.num) /\ hist.sent = chi.total
    /\ chi.pc = "c_write_arr" =>
         /\ chi.bytes = 4 * chi.num /\ chi.buf = ArrBytes(chi.arr) /\ Len(chi.arr) = chi.num
         /\ hist.sent = 4 + chi.total
    /\ hist.sent <= 4 + 4 * chi.num
    /\ chi.pc \in {"c_finish", "exit_ok"} => hist.sent = 4 + 4 * chi.num
    /\ par.pc = "p_read_num" => par.bytes = 4 /\ par.total = Len(par.buf)
    /\ par.pc = "p_malloc" => par.total = 4 /\ par.num = BytesInt(par.buf)
    /\ par.pc = "p_read_arr" => par.bytes = 4 * par.num /\ par.total = Len(par.buf)
    /\ (par.pc \in {"p_print", "p_wait"} \/ par.printed) => Len(par.buf) = 4 * par.num
    /\ BytesReadKnown =>
         /\ hist.sent = BytesRead + Len(chan)
         /\ par.pc # "p_read_num" => hist.sent >= 4 /\ par.num = chi.num
    /\ (par.printed /\ Exited(par)) =>
         /\ BytesRead = hist.sent /\ BytesRead = 4 + 4 * par.num
         /\ chan = <<>>

C24_Witness ==
  /\ transport = "fifo" /\ stdin.num = MaxCount /\ hist.partial
  /\ par.pc = "exit_ok" /\ chi.pc = "exit_ok" /\ par.printed
  /\ hist.sent = 4 + 4 * MaxCount /\ BytesRead = hist.sent /\ chan = <<>>

\* The call process p makes right after its call at position k of the log
FollowedBy(k, p, op) ==
  k + 1 <= Len(log) /\ log[k + 1].p = p /\ log[k + 1].op = op

\* C25: best-effort teardown goes on past a failing step. In the
\* shared-memory program every munmap, failed or not, is followed by the close
\* of the descriptor by the same process, and every close by the parent,
\* failed or not, by its shm_unlink (the child, which asks for no unlink, stops
\* after close); in the FIFO program every close by the parent, failed or not,
\* is followed by its unlink of the path.
C25_TeardownContinues ==
  /\ transport = "shm" =>
       /\ \A p \in Procs : \A k \in CallsOf(p, "munmap") : FollowedBy(k, p, "close")
       /\ \A k \in CallsOf("parent", "close") : FollowedBy(k, "parent", "shm_unlink")
       /\ \A k \in CallsOf("child", "close") : ~FollowedBy(k, "child", "shm_unlink")
  /\ transport = "fifo" =>
       \A k \in CallsOf("parent", "close") : FollowedBy(k, "parent", "unlink")

C25_Witness ==
  /\ transport = "shm" /\ Exited(par)
  /\ \E k \in CallsOf("parent", "munmap") :
       /\ ~log[k].ok /\ ~log[k + 1].ok
       /\ FollowedBy(k, "parent", "close") /\ FollowedBy(k + 1, "parent", "shm_unlink")
       /\ log[k + 2].ok /\ ~named

\* C27: the count the consumer reads, pipe and FIFO, when the child of the
\* session is the only writer. Every count the parent has decoded is the count
\* the child accepted and lies in [1, 256]; so the parent allocates and reads
\* num * 4 bytes with 4 <= num * 4 <= 1024.
C27_ConsumerCountInRange ==
  transport \in {"pipe", "pipe_inline", "fifo"} =>
    /\ par.pc \in {"p_malloc", "p_read_arr", "p_print", "p_wait"} =>
         /\ 1 <= par.num /\ par.num <= 256
         /\ 4 <= PayloadBytes(par.num) /\ PayloadBytes(par.num) <= 1024
    /\ par.num # 0 =>
         /\ 1 <= par.num /\ par.num <= 256
         /\ par.num = chi.num /\ par.num = stdin.num /\ hist.gate = "accepted"
    /\ par.pc = "p_read_arr" => par.bytes = 4 * par.num /\ 4 <= par.bytes /\ par.bytes <= 1024

C27_Witness ==
  /\ transport = "pipe" /\ par.pc = "p_read_arr" /\ par.num = MaxCount
  /\ par.bytes = 4 * MaxCount /\ par.total > 0 /\ chi.num = MaxCount

\* C28: FIFO unlink ordering. Once the parent's open of the read side has
\* succeeded the child has opened the write side: it is inside its open, past
\* the lookup of the path, or its open has returned. Every unlink of such a
\* parent comes after that; the child's open has not failed and does not fail,
\* and a child still inside open can return from it, also after the path was
\* removed. Unless a read or write call failed, the child's open has returned
\* before the parent unlinks.
C28_UnlinkAfterWriterOpened ==
  (transport = "fifo" /\ chi.pc # "unborn" /\ hist.rOpened) =>
     /\ WriteSideOpened
     /\ ~Failed("child", "open")
     /\ chi.pc # "c_open"
     /\ chi.pc = "c_open_wait" => ENABLED FifoChildOpenReturn
     /\ \A u \in CallsOf("parent", "unlink") :
          \E o \in CallsOf("parent", "open") : log[o].ok /\ o < u
     /\ (CallsOf("parent", "unlink") # {} /\ ~hist.ioBroken) => hist.wOpened

C28_Witness ==
  /\ transport = "fifo" /\ hist.rOpened /\ ~named
  /\ \E u \in CallsOf("parent", "unlink") : \E o \in CallsOf("child", "open") :
       log[u].ok /\ log[o].ok /\ u < o
  /\ chi.pc = "c_scan_num"

\* Both processes of the session are gone (a child that was never forked
\* counts as gone)
SessionOver == Exited(par) /\ (Exited(chi) \/ chi.pc = "unborn")

\* C18 as stated: every error ends the session. Once a call of either process
\* has failed (setup, open, input validation, transfer, wait), under fair
\* scheduling both processes eventually terminate.
C18_ErrorEndsSession ==
  (hist.envFail \/ hist.ioBroken) ~> SessionOver

----------------------------------------------------------------------------
(* The consumer on a message that is not its child's. The FIFO path and the  *)
(* segment name are public: when they exist before main, another process may *)
(* be the writer on the FIFO, or may have left its data in the segment. The  *)
(* child of the session has failed before it wrote anything.                 *)

OverCapacity == (BUFFER_SIZE \div SizeofInt) + 1

\* What the other writer left: counts -1, 0, 1 and 257, each with that many
\* elements
ForeignMessages ==
  {[numOk |-> TRUE, num |-> c, elems |-> [k \in 1..(IF c < 0 THEN 0 ELSE c) |-> k - 2]] :
     c \in {-1, 0, 1, OverCapacity}}

ForeignSegment(msg) ==
  [k \in 1..ShmSlots |-> IF k = 1 THEN msg.num
                         ELSE IF k - 1 <= Len(msg.elems) THEN msg.elems[k - 1] ELSE 0]

InitConsumer ==
  /\ transport \in {"fifo", "shm"}
  /\ preExisted = TRUE
  /\ named = TRUE
  /\ stdin \in ForeignMessages
  /\ par = [pc |-> IF transport = "fifo" THEN "p_read_num" ELSE "p_wait",
            fds |-> IF transport = "fifo" THEN {"r"} ELSE {"fd", "map"},
            num |-> 0, arr |-> <<>>, buf |-> <<>>,
            bytes |-> IF transport = "fifo" THEN SizeofInt ELSE 0,
            total |-> 0, out |-> <<>>, printed |-> FALSE, waited |-> 0]
  /\ chi = [pc |-> "exit_fail", fds |-> {}, num |-> 0, arr |-> <<>>, i |-> 0,
            buf |-> <<>>, bytes |-> 0, total |-> 0]
  /\ chan = IF transport = "fifo" THEN Stream ELSE <<>>
  /\ shm = IF transport = "shm" THEN ForeignSegment(stdin) ELSE <<>>
  /\ log = IF transport = "fifo"
           THEN << [p |-> "parent", op |-> "mkfifo", ok |-> FALSE, res |-> "EEXIST"],
                   Call("parent", "fork", TRUE), Call("child", "open", FALSE),
                   Call("parent", "open", TRUE) >>
           ELSE << Call("parent", "shm_open", TRUE), Call("parent", "ftruncate", TRUE),
                   Call("parent", "mmap", TRUE), Call("parent", "fork", TRUE),
                   Call("child", "munmap", TRUE), Call("child", "close", TRUE) >>
  /\ hist = [ioBroken |-> FALSE, envFail |-> TRUE, partial |-> FALSE, gate |-> "none",
             wcalled |-> FALSE, sent |-> 0, stores |-> {}, loads |-> {},
             wOpened |-> FALSE, rOpened |-> transport = "fifo"]
  /\ io = IoIdle
  /\ thr = ThrIdle

NextConsumer ==
  ParentRead \/ ParentMalloc \/ ParentPrint \/ FifoParentWait \/ ShmParentWait

SpecConsumer == InitConsumer /\ [][NextConsumer]_vars

----------------------------------------------------------------------------
(* The shared-memory program on its own, with the largest message it takes  *)
(* and a message of one element more among the inputs                       *)

\* A count of BUFFER_SIZE / sizeof(int) followed by that many elements
OverfullStdin ==
  [numOk |-> TRUE, num |-> ShmSlots, elems |-> [k \in 1..ShmSlots |-> k - 2]]

ShmStdins == Stdins("shm") \cup {BoundaryStdin("shm"), OverfullStdin}

InitShm == InitSession /\ transport = "shm" /\ stdin \in ShmStdins

NextShm ==
  \/ ShmMainOpen \/ ShmMainFtruncate \/ ShmMainMmap \/ MainFork
  \/ ChildScanNum \/ ChildScanElem \/ ChildFinish
  \/ ShmParentWait

SpecShm == InitShm /\ [][NextShm]_vars

\* C26: shared-memory bounds. Every slot the child stores to and every slot
\* the parent loads from has an index in [0, 255]; the child stores to slot 0
\* and to slots 1..count only, with 1 <= count <= 255, and every other slot of
\* the segment keeps what it held; the parent loads slots above 0 only with a
\* count it has found in [1, 255], and then slots 1..count only; its test of
\* the count lets through no count outside [1, 255].
C26_ShmBounds ==
  transport = "shm" =>
    /\ hist.stores \subseteq 0..255 /\ hist.loads \subseteq 0..255
    /\ DOMAIN shm = 1..ShmSlots
    /\ hist.stores # {} =>
         /\ 1 <= chi.num /\ chi.num <= 255 /\ shm[1] = chi.num
         /\ 0 \in hist.stores /\ hist.stores \subseteq 0..chi.num
    /\ \A s \in 0..(ShmSlots - 1) :
         s \notin hist.stores => shm[s + 1] = (IF s < 2 THEN shm[s + 1] ELSE 0)
    /\ hist.stores = {} => shm \in {ZeroSegment, StaleSegment}
    /\ (hist.loads \ {0}) # {} =>
         /\ 1 <= par.num /\ par.num <= 255
         /\ hist.loads \subseteq 0..par.num
    /\ \A n \in -1..(ShmSlots + 1) :
         ~ConsumerInvalid(transport, n) => 1 <= n /\ n <= 255

C26_Witness ==
  /\ transport = "shm" /\ stdin.num = 255 /\ hist.stores = 0..255
  /\ shm[256] = stdin.elems[255] /\ chi.pc = "exit_ok" /\ Exited(par)

----------------------------------------------------------------------------
(* The success path: the runs in which no call fails and no input is        *)
(* rejected. A process whose call cannot succeed in the current state (a    *)
(* write on a full pipe, a read on an empty one, a wait for a live child)   *)
(* is blocked in it.                                                        *)

\* The step just taken reported no failure
NoFault == ~hist'.envFail /\ ~hist'.ioBroken

NextOk ==
  \/ PipeMainPipe /\ NoFault
  \/ FifoMainMkfifo /\ NoFault
  \/ ShmMainOpen /\ NoFault
  \/ ShmMainFtruncate /\ NoFault
  \/ ShmMainMmap /\ NoFault
  \/ MainFork /\ NoFault
  \/ PipeChildCloseRead /\ NoFault
  \/ FifoChildOpenEnter /\ NoFault
  \/ FifoChildOpenReturn /\ NoFault
  \/ ChildScanNum /\ NoFault
  \/ ChildMalloc /\ NoFault
  \/ ChildScanElem /\ NoFault
  \/ ChildWrite /\ NoFault
  \/ ChildFinish /\ NoFault
  \/ PipeParentCloseWrite /\ NoFault
  \/ FifoParentOpenEnter /\ NoFault
  \/ FifoParentOpenReturn /\ NoFault
  \/ ParentRead /\ NoFault
  \/ ParentMalloc /\ NoFault
  \/ ParentPrint /\ NoFault
  \/ PipeParentWait /\ NoFault
  \/ FifoParentWait /\ NoFault
  \/ ShmParentWait /\ NoFault

SpecOk == Init /\ [][NextOk]_vars /\ WF_vars(NextOk)

\* C29: no deadlock on the success path of the pipe and FIFO programs. The
\* child is never in a write while the parent is in its wait; and when the
\* producer's input is a whole valid message and every call succeeds, under
\* fair scheduling the child finishes writing and exits, the parent finishes
\* reading, prints the message and exits.
C29_NoDeadlockOnSuccess ==
  /\ [](transport \in {"pipe", "pipe_inline", "fifo"} =>
          ~(chi.pc \in {"c_write_num", "c_write_arr"} /\ par.pc = "p_wait"))
  /\ (transport \in {"pipe", "pipe_inline", "fifo"} /\ WholeInput)
       ~> (chi.pc = "exit_ok" /\ par.pc = "exit_ok" /\ par.out = stdin.elems /\ chan = <<>>)

C29_Witness ==
  /\ transport = "pipe" /\ WholeInput /\ stdin.num = MaxCount
  /\ chi.pc = "c_write_arr" /\ Len(chan) = ChanCap
  /\ par.pc = "p_read_arr" /\ par.total > 0

SessIdle ==
  /\ transport = "none"
  /\ stdin = [numOk |-> FALSE, num |-> 0, elems |-> <<>>]
  /\ preExisted = FALSE
  /\ named = FALSE
  /\ par = [pc |-> "idle"]
  /\ chi = [pc |-> "idle"]
  /\ chan = <<>>
  /\ shm = <<>>
  /\ log = <<>>
  /\ hist = [ioBroken |-> FALSE]

InitIO ==
  /\ SessIdle
  /\ \E fn \in IoFns, n \in 0..MaxBytes : io = IoStart(fn, n)
  /\ thr = ThrIdle

NextIO == IoIterate \/ IoReturn

SpecIO == InitIO /\ [][NextIO]_vars

----------------------------------------------------------------------------
\* C6: under maximal fragmentation (every primitive call so far moved exactly
\* one byte) a request of n >= 1 bytes never takes more than n calls, each call
\* advances the transfer by one byte in order, and once the function has
\* returned it made exactly n calls, returned n and moved the n bytes in their
\* original order; with n bytes moved the only step left is the return.
C6_OneByteCompletes ==
  (io.fn \in IoFns /\ io.bytes >= 1 /\ io.ones) =>
     /\ io.calls = io.total
     /\ io.calls <= io.bytes
     /\ io.moved = SubSeq(io.buf, 1, io.calls)
     /\ io.ret # -1
     /\ (io.returned => io.calls = io.bytes /\ io.ret = io.bytes /\ io.moved = io.buf)
     /\ (~io.returned /\ io.calls = io.bytes => ENABLED IoReturn /\ ~ENABLED IoIterate)

C6_Witness ==
  io.fn = "write_all" /\ io.bytes = MaxBytes /\ io.ones /\ io.calls = MaxBytes /\ io.returned /\ io.ret = MaxBytes

\* C7: a primitive result of 0 or less, met while fewer than the requested
\* bytes have been moved, ends the function at once: it returns -1, the failing
\* call is the last call issued, and success is never reported.
C7_NonPositiveIsTerminal ==
  (io.fn \in IoFns /\ io.failedAt # 0) =>
     /\ io.returned /\ io.ret = -1
     /\ io.calls = io.failedAt
     /\ io.total < io.bytes
     /\ ~ENABLED IoIterate
     /\ ~ENABLED IoReturn

C7_Witness ==
  io.fn = "read_all" /\ io.failedAt = 2 /\ io.total = 1 /\ io.bytes = 3 /\ io.returned /\ io.ret = -1

\* C23: loop invariant of write_all and read_all. In every state 0 <= total <=
\* bytes and the bytes moved are the first total bytes of the buffer; a
\* primitive call is issued only with total < bytes, moves what it returned
\* (at most bytes - total bytes) from offset total on, and total grows by that
\* amount and by nothing else; a call that moved nothing ends the function with
\* -1; the function returns -1 or, with everything moved, exactly bytes.
C23_LoopInvariant ==
  /\ [](io.fn \in IoFns =>
          /\ 0 <= io.total /\ io.total <= io.bytes
          /\ io.moved = SubSeq(io.buf, 1, io.total)
          /\ (io.returned => \/ io.ret = -1 /\ io.total < io.bytes
                             \/ io.ret = io.bytes /\ io.total = io.bytes))
  /\ [][ io.fn \in IoFns =>
           /\ io.total' # io.total => io.calls' = io.calls + 1
           /\ io.calls' = io.calls + 1 =>
                LET r == Len(io.moved') - Len(io.moved) IN
                /\ 0 <= io.total /\ io.total < io.bytes
                /\ 0 <= r /\ r <= io.bytes - io.total
                /\ io.moved' = io.moved \o SubSeq(io.buf, io.total + 1, io.total + r)
                /\ io.total' = io.total + r
                /\ (r = 0 => io.returned' /\ io.ret' = -1)
                /\ (r > 0 => ~io.returned') ]_vars

C23_Witness ==
  /\ io.fn = "read_all" /\ io.bytes = MaxBytes /\ io.calls = 2 /\ ~io.ones
  /\ io.returned /\ io.ret = MaxBytes /\ io.moved = io.buf

----------------------------------------------------------------------------
(* Thread creation demo (Lab, Final Tasks, q1.c): main creates three        *)
(* threads in a loop and joins them in a second loop                        *)

\* `sizeof(functions) / sizeof(void*)`
NumThreads == 3
ThreadIdx == 1..NumThreads

\* `is_thread_created[i] = 1;` the statement after the `if` around
\* pthread_create, run in every pass
FlagAfterCreate(ok) == 1

\* pthread_join on a pthread_t that no pthread_create filled in: the value is
\* indeterminate; the call reports an error or the process is ended by a fault
StrayJoinOutcomes == {"ESRCH", "fault"}

InitCreate ==
  /\ SessIdle
  /\ io = IoIdle
  /\ thr = [prog |-> "create_demo", pc |-> "create", i |-> 0,
            is_thread_created |-> [k \in ThreadIdx |-> 0],
            thread_ids |-> [k \in ThreadIdx |-> "indeterminate"],
            th |-> [k \in ThreadIdx |-> "none"],
            joins |-> <<>>]

\* One pass of the first loop: `pthread_create(&thread_ids[i], NULL, functions[i], NULL)`,
\* perror when it fails, then the flag
CreatePass ==
  /\ thr.prog = "create_demo" /\ thr.pc = "create" /\ thr.i < NumThreads
  /\ \E ok \in BOOLEAN :
       LET k == thr.i + 1
           last == thr.i + 1 = NumThreads
       IN thr' = [thr EXCEPT !.thread_ids[k] = IF ok THEN "valid" ELSE @,
                             !.th[k] = IF ok THEN "running" ELSE @,
                             !.is_thread_created[k] = FlagAfterCreate(ok),
                             !.i = IF last THEN 0 ELSE @ + 1,
                             !.pc = IF last THEN "join" ELSE @]
  /\ UNCHANGED ipcVars

\* function_a / function_b / function_c: `printf("In function_x()\n");`
ThreadPrint(k) ==
  /\ thr.prog = "create_demo" /\ thr.pc \in {"create", "join"}
  /\ thr.th[k] = "running"
  /\ thr' = [thr EXCEPT !.th[k] = "printed"]
  /\ UNCHANGED ipcVars

\* function_a / function_b / function_c: `pthread_exit(NULL);`
ThreadExit(k) ==
  /\ thr.prog = "create_demo" /\ thr.pc \in {"create", "join"}
  /\ thr.th[k] = "printed"
  /\ thr' = [thr EXCEPT !.th[k] = "terminated"]
  /\ UNCHANGED ipcVars

\* One pass of the second loop: `if (!is_thread_created[i]) continue;` then
\* `pthread_join(thread_ids[i], NULL)`, which returns once the thread has
\* terminated; after the last pass main returns
JoinPass ==
  /\ thr.prog = "create_demo" /\ thr.pc = "join" /\ thr.i < NumThreads
  /\ LET k == thr.i + 1
         last == thr.i + 1 = NumThreads
         on == [thr EXCEPT !.i = @ + 1, !.pc = IF last THEN "done" ELSE @]
     IN
     IF thr.is_thread_created[k] = 0 THEN thr' = on
     ELSE IF thr.thread_ids[k] = "valid"
     THEN /\ thr.th[k] = "terminated"
          /\ thr' = [on EXCEPT !.th[k] = "joined",
                               !.joins = Append(@, [i |-> k, id |-> "valid", res |-> "0"])]
     ELSE \E out \in StrayJoinOutcomes :
            thr' = [on EXCEPT !.joins = Append(@, [i |-> k, id |-> "indeterminate", res |-> out]),
                              !.pc = IF out = "fault" THEN "faulted" ELSE on.pc]
  /\ UNCHANGED ipcVars

NextCreate ==
  \/ CreatePass
  \/ \E k \in ThreadIdx : ThreadPrint(k)
  \/ \E k \in ThreadIdx : ThreadExit(k)
  \/ JoinPass

SpecCreate == InitCreate /\ [][NextCreate]_vars

\* C30 as stated: pthread_join is called only on threads whose pthread_create
\* succeeded; a thread whose creation failed is skipped by the join loop.
C30_JoinOnlyCreated ==
  thr.prog = "create_demo" =>
    \A j \in 1..Len(thr.joins) : thr.joins[j].id = "valid"

----------------------------------------------------------------------------
(* Two-thread sort and merge (Lab, Final Tasks, q1.c): main splits the      *)
(* array in two halves, has one Sort thread sort each half in place, joins  *)
(* both and merges the halves                                               *)

MaxLen == 4          \* longest input array
SortVals == 0..2     \* element values typed in

\* `Array left = {a.n / 2, a.arr};`
LeftLen(n) == n \div 2

\* `Array right = {a.n - left.n, a.arr + left.n};`: where the right half starts
RightBaseZero(leftn) == 0
RightBase(leftn) == leftn

\* Length and first index (from 0) of the part of a.arr thread t sorts
SubLen(t) == IF t = 1 THEN LeftLen(thr.n) ELSE thr.n - LeftLen(thr.n)
SubBase(t) == IF t = 1 THEN 0 ELSE RightBase(LeftLen(thr.n))

\* Merge: the two while loops that drain what is left are the first two cases
RECURSIVE Merge(_, _)
Merge(l, r) ==
  IF l = <<>> THEN r
  ELSE IF r = <<>> THEN l
  ELSE IF l[1] <= r[1] THEN <<l[1]>> \o Merge(Tail(l), r)
  ELSE <<r[1]>> \o Merge(l, Tail(r))

\* The state at `Array left = ...`: n and the n elements have been read
InitSort ==
  /\ SessIdle
  /\ io = IoIdle
  /\ \E n \in 0..MaxLen : \E a \in [1..n -> SortVals] :
       thr = [prog |-> "sort_merge", pc |-> "create1", n |-> n, arr |-> a, input |-> a,
              t |-> <<"indeterminate", "indeterminate">>,
              th |-> [k \in 1..2 |-> [pc |-> "none", i |-> 0, j |-> 1]],
              touched |-> <<{}, {}>>, live |-> {}, result |-> <<>>, printed |-> FALSE]

\* `pthread_create(&t1, NULL, Sort, &left) != 0 || ...`: when the first call
\* fails the second is not made
MainCreate1 ==
  /\ thr.prog = "sort_merge" /\ thr.pc = "create1"
  /\ \E ok \in BOOLEAN :
       thr' = IF ok THEN [thr EXCEPT !.pc = "create2", !.t[1] = "valid", !.th[1].pc = "running"]
              ELSE [thr EXCEPT !.pc = "join1"]
  /\ UNCHANGED ipcVars

\* `... || pthread_create(&t2, NULL, Sort, &right) != 0`; a failure is reported
\* with perror and main goes on
MainCreate2 ==
  /\ thr.prog = "sort_merge" /\ thr.pc = "create2"
  /\ \E ok \in BOOLEAN :
       thr' = IF ok THEN [thr EXCEPT !.pc = "join1", !.t[2] = "valid", !.th[2].pc = "running"]
              ELSE [thr EXCEPT !.pc = "join1"]
  /\ UNCHANGED ipcVars

\* One step of Sort in thread t: the test of the outer loop, the test of the
\* inner loop, or one pass of the inner loop (compare a->arr[i] and a->arr[j],
\* swap them when a->arr[i] > a->arr[j])
Sort(t) ==
  /\ thr.prog = "sort_merge" /\ thr.pc \notin {"done", "faulted"}
  /\ thr.th[t].pc = "running"
  /\ LET i == thr.th[t].i
         j == thr.th[t].j
         x == SubBase(t) + i + 1
         y == SubBase(t) + j + 1
     IN
     thr' = IF ~(i < SubLen(t)) THEN [thr EXCEPT !.th[t].pc = "terminated"]
            ELSE IF ~(j < SubLen(t)) THEN [thr EXCEPT !.th[t].i = i + 1, !.th[t].j = i + 2]
            ELSE [thr EXCEPT !.th[t].j = j + 1,
                             !.touched[t] = @ \cup {x - 1, y - 1},
                             !.arr = IF thr.arr[x] > thr.arr[y]
                                     THEN [thr.arr EXCEPT ![x] = thr.arr[y], ![y] = thr.arr[x]]
                                     ELSE @]
  /\ UNCHANGED ipcVars

\* pthread_join(t, NULL): returns 0 once the thread has terminated; on a
\* pthread_t no pthread_create filled in, it reports an error or faults
JoinResults(t) ==
  IF thr.t[t] = "valid" THEN (IF thr.th[t].pc = "terminated" THEN {"0"} ELSE {})
  ELSE StrayJoinOutcomes

\* `pthread_join(t1, NULL) != 0 || ...`: when the first call fails the second
\* is not made
MainJoin1 ==
  /\ thr.prog = "sort_merge" /\ thr.pc = "join1"
  /\ \E res \in JoinResults(1) :
       thr' = [thr EXCEPT !.pc = IF res = "0" THEN "join2"
                                 ELSE IF res = "fault" THEN "faulted" ELSE "merge"]
  /\ UNCHANGED ipcVars

\* `... || pthread_join(t2, NULL) != 0`
MainJoin2 ==
  /\ thr.prog = "sort_merge" /\ thr.pc = "join2"
  /\ \E res \in JoinResults(2) :
       thr' = [thr EXCEPT !.pc = IF res = "fault" THEN "faulted" ELSE "merge"]
  /\ UNCHANGED ipcVars

\* `Array* result = Merge(&left, &right);` the two malloc calls of Merge are
\* not checked: when one returns NULL the store through it faults
MainMerge ==
  /\ thr.prog = "sort_merge" /\ thr.pc = "merge"
  /\ \E ok \in BOOLEAN :
       LET l == SubSeq(thr.arr, 1, SubLen(1))
           r == SubSeq(thr.arr, SubBase(2) + 1, SubBase(2) + SubLen(2))
       IN thr' = IF ok THEN [thr EXCEPT !.pc = "print", !.result = Merge(l, r),
                                        !.live = {t \in 1..2 : thr.th[t].pc = "running"}]
                 ELSE [thr EXCEPT !.pc = "faulted"]
  /\ UNCHANGED ipcVars

\* The print loop over result->arr, the three free calls, and main returns
MainPrintSorted ==
  /\ thr.prog = "sort_merge" /\ thr.pc = "print"
  /\ thr' = [thr EXCEPT !.pc = "done", !.printed = TRUE]
  /\ UNCHANGED ipcVars

NextSort ==
  \/ MainCreate1 \/ MainCreate2
  \/ \E t \in 1..2 : Sort(t)
  \/ MainJoin1 \/ MainJoin2 \/ MainMerge \/ MainPrintSorted

SpecSort == InitSort /\ [][NextSort]_vars

IsSorted(s) == \A k \in 1..(Len(s) - 1) : s[k] <= s[k + 1]
Count(s, v) == Cardinality({k \in 1..Len(s) : s[k] = v})
IsPermutation(s, u) == Len(s) = Len(u) /\ \A v \in SortVals : Count(s, v) = Count(u, v)

\* C31: two-thread sort and merge. The thread on the left half touches only
\* the first n / 2 elements and the thread on the right half only the rest;
\* a.arr is a permutation of the input throughout; and in a run in which both
\* Sort threads were created, Merge starts only after both have terminated,
\* with each half sorted, and its result, which main prints, is a sorted
\* permutation of the input, for every input of length 0..MaxLen.
C31_SortMerge ==
  thr.prog = "sort_merge" =>
    /\ thr.touched[1] \subseteq 0..(thr.n \div 2 - 1)
    /\ thr.touched[2] \subseteq (thr.n \div 2)..(thr.n - 1)
    /\ thr.touched[1] \cap thr.touched[2] = {}
    /\ IsPermutation(thr.arr, thr.input)
    /\ (thr.t = <<"valid", "valid">> /\ thr.pc \in {"merge", "print", "done"}) =>
         /\ \A t \in 1..2 : thr.th[t].pc = "terminated"
         /\ thr.live = {}
         /\ IsSorted(SubSeq(thr.arr, 1, thr.n \div 2))
         /\ IsSorted(SubSeq(thr.arr, thr.n \div 2 + 1, thr.n))
    /\ (thr.t = <<"valid", "valid">> /\ thr.pc \in {"print", "done"}) =>
         /\ IsSorted(thr.result)
         /\ IsPermutation(thr.result, thr.input)

C31_Witness ==
  /\ thr.prog = "sort_merge" /\ thr.pc = "done" /\ thr.printed
  /\ thr.n = MaxLen /\ thr.input = [k \in 1..MaxLen |-> IF k % 2 = 1 THEN 2 ELSE (k \div 2) - 1]
  /\ thr.t = <<"valid", "valid">> /\ thr.result # thr.input /\ IsSorted(thr.result)
  /\ thr.touched[1] # {} /\ thr.touched[2] # {}

----------------------------------------------------------------------------
(* Thread-per-cell matrix multiplication (Lab, Final Tasks, q2.c): main     *)
(* reads a and b, creates one InnerProduct thread for each cell of r, joins *)
(* them all and prints r. A matrix is a function on the cells               *)
(* 0 .. MATRIX_SIZE * MATRIX_SIZE - 1, the cell of row i and column j being *)
(* MATRIX_SIZE * i + j                                                      *)

MATRIX_SIZE == 3
INT_MAX == 2147483647
INT_MIN == -INT_MAX - 1

Cells == 0..(MATRIX_SIZE * MATRIX_SIZE - 1)
CellOf(i, j) == MATRIX_SIZE * i + j
RowOf(c) == c \div MATRIX_SIZE
ColOf(c) == c % MATRIX_SIZE

\* The matrices typed in: one without symmetry, one with negative entries,
\* and one with entries of 2^15, whose products of two entries fit in an int
\* and whose sums of two such products do not
MatrixInputs ==
  { [c \in Cells |-> c + 1],
    [c \in Cells |-> ((c * 2) % 5) - 2],
    [c \in Cells |-> 32768] }

\* `sum += x` in int: whether the exact result is an int, and what a build
\* that wraps around leaves in sum
AddFits(s, x) == IF x >= 0 THEN s <= INT_MAX - x ELSE s >= INT_MIN - x
WrapAdd(s, x) ==
  IF AddFits(s, x) THEN s + x
  ELSE IF x >= 0 THEN (s - INT_MAX - 1) + (x - INT_MAX - 1)
  ELSE (s + INT_MAX + 1) + (x + INT_MAX + 1)

\* `a.data[param->a_idx][i] * b.data[i][param->b_idx]`
Term(a, b, ai, bi, i) == a[CellOf(ai, i)] * b[CellOf(i, bi)]

\* The loop of InnerProduct run for the first k values of i: sum, and whether
\* every addition stayed inside int
RECURSIVE InnerLoop(_, _, _, _, _)
InnerLoop(a, b, ai, bi, k) ==
  IF k = 0 THEN [sum |-> 0, fits |-> TRUE]
  ELSE LET s == InnerLoop(a, b, ai, bi, k - 1)
           x == Term(a, b, ai, bi, k - 1)
       IN [sum |-> WrapAdd(s.sum, x), fits |-> s.fits /\ AddFits(s.sum, x)]

\* A signed overflow is undefined: the build wraps around or traps
OverflowOutcomes == {"wrap", "trap"}

\* `r.data[param->a_idx][param->b_idx] = sum;`: the cell the thread stores to
ResultCellRowOnly(ai, bi) == CellOf(ai, 0)
ResultCell(ai, bi) == CellOf(ai, bi)

\* The state after the two input loops
InitMatrix ==
  /\ SessIdle
  /\ io = IoIdle
  /\ \E a \in MatrixInputs : \E b \in MatrixInputs :
       thr = [prog |-> "matrix", pc |-> "create", k |-> 0, a |-> a, b |-> b,
              r |-> [c \in Cells |-> 0],
              th |-> [c \in Cells |-> [pc |-> "none", sum |-> 0]],
              stores |-> [c \in Cells |-> {}]]

MatrixRunning == thr.prog = "matrix" /\ thr.pc \in {"create", "join"}

\* One pass of the creating loops: malloc of the parameter, a_idx and b_idx,
\* pthread_create; exit(EXIT_FAILURE) when malloc or pthread_create fails
MatrixCreate ==
  /\ thr.prog = "matrix" /\ thr.pc = "create"
  /\ \E ok \in BOOLEAN :
       thr' = IF ~ok THEN [thr EXCEPT !.pc = "exited"]
              ELSE [thr EXCEPT !.th[thr.k].pc = "loop",
                               !.k = IF thr.k + 1 \in Cells THEN thr.k + 1 ELSE 0,
                               !.pc = IF thr.k + 1 \in Cells THEN "create" ELSE "join"]
  /\ UNCHANGED ipcVars

\* InnerProduct of the thread made for cell c: the summing loop
InnerProduct(c) ==
  /\ MatrixRunning /\ thr.th[c].pc = "loop"
  /\ LET s == InnerLoop(thr.a, thr.b, RowOf(c), ColOf(c), MATRIX_SIZE) IN
     \E o \in OverflowOutcomes :
       thr' = IF s.fits \/ o = "wrap"
              THEN [thr EXCEPT !.th[c] = [pc |-> "store", sum |-> s.sum]]
              ELSE [thr EXCEPT !.pc = "trapped"]
  /\ UNCHANGED ipcVars

\* InnerProduct of the thread made for cell c: the store to r, free(arg),
\* return
InnerProductStore(c) ==
  /\ MatrixRunning /\ thr.th[c].pc = "store"
  /\ LET d == ResultCell(RowOf(c), ColOf(c)) IN
     thr' = [thr EXCEPT !.r[d] = thr.th[c].sum,
                        !.stores[c] = @ \cup {<<"r", d>>},
                        !.th[c].pc = "returned"]
  /\ UNCHANGED ipcVars

\* One pass of the joining loops: pthread_join returns once the thread has
\* returned
MatrixJoin ==
  /\ thr.prog = "matrix" /\ thr.pc = "join"
  /\ thr.th[thr.k].pc = "returned"
  /\ thr' = [thr EXCEPT !.k = IF thr.k + 1 \in Cells THEN thr.k + 1 ELSE 0,
                        !.pc = IF thr.k + 1 \in Cells THEN "join" ELSE "print"]
  /\ UNCHANGED ipcVars

\* The printing loops, and main returns
MatrixPrint ==
  /\ thr.prog = "matrix" /\ thr.pc = "print"
  /\ thr' = [thr EXCEPT !.pc = "done"]
  /\ UNCHANGED ipcVars

NextMatrix ==
  \/ MatrixCreate
  \/ \E c \in Cells : InnerProduct(c)
  \/ \E c \in Cells : InnerProductStore(c)
  \/ MatrixJoin
  \/ MatrixPrint

SpecMatrix == InitMatrix /\ [][NextMatrix]_vars

\* The entry of the matrix product a x b in cell c, for inputs on which the
\* loop stays inside int
Product(a, b, c) == InnerLoop(a, b, RowOf(c), ColOf(c), MATRIX_SIZE).sum
ProductFits(a, b, c) == InnerLoop(a, b, RowOf(c), ColOf(c), MATRIX_SIZE).fits

\* Every thread stores to its own cell of r and to nothing else
OwnCellOnly ==
  /\ \A c \in Cells : thr.stores[c] \subseteq {<<"r", c>>}
  /\ \A c \in Cells : thr.th[c].pc = "returned" => thr.stores[c] = {<<"r", c>>}
  /\ \A c, d \in Cells : c # d => thr.stores[c] \cap thr.stores[d] = {}

\* C32 (as stated): each of the 9 threads stores to exactly one cell of r, no
\* two to the same, none to a or b, and once all are joined r is the matrix
\* product a x b, for every pair of inputs and every interleaving.
C32_ProductForEveryInput ==
  thr.prog = "matrix" =>
    /\ OwnCellOnly
    /\ thr.pc \in {"print", "done"} =>
         \A c \in Cells : ProductFits(thr.a, thr.b, c) /\ thr.r[c] = Product(thr.a, thr.b, c)

\* C32 (amended): each of the 9 threads stores to exactly one cell of r, no two
\* to the same, none to a or b; once all are joined every thread has returned,
\* and every cell of r whose inner product was summed without leaving int
\* holds that entry of a x b, in every interleaving.
C32_ProductWhenInRange ==
  thr.prog = "matrix" =>
    /\ OwnCellOnly
    /\ thr.pc \in {"print", "done"} =>
         /\ \A c \in Cells : thr.th[c].pc = "returned"
         /\ \A c \in Cells : ProductFits(thr.a, thr.b, c) => thr.r[c] = Product(thr.a, thr.b, c)

C32_Witness ==
  /\ thr.prog = "matrix" /\ thr.pc = "done"
  /\ thr.a = [c \in Cells |-> c + 1] /\ thr.b = [c \in Cells |-> ((c * 2) % 5) - 2]
  /\ \A c \in Cells : ProductFits(thr.a, thr.b, c) /\ thr.stores[c] = {<<"r", c>>}
  /\ thr.r[CellOf(0, 1)] = 1 * 0 + 2 * 1 + 3 * 2
  /\ thr.r[CellOf(1, 0)] = 4 * (-2) + 5 * (-1) + 6 * 0

----------------------------------------------------------------------------
(* Mutex demo (unnamed/part_003): two threads increment shared_data five    *)
(* times each, first without a lock (unsafe_direct_access), then, after     *)
(* main has joined them and reset shared_data, between pthread_mutex_lock   *)
(* and pthread_mutex_unlock (safe_mutex_lock_access)                        *)

LoopCount == 5       \* `for (int i = 0; i < 5; ++i)`
MutexThreads == 1..2

\* pthread_mutex_lock returns 0 only when no thread holds the mutex (0)
LockFreeAlways(m) == TRUE
LockFree(m) == m = 0

\* The state after pthread_mutex_init and the first printf of main
InitMutex ==
  /\ SessIdle
  /\ io = IoIdle
  /\ thr = [prog |-> "mutex_demo", pc |-> "create1", phase |-> "unsafe",
            shared_data |-> 0, mutex |-> 0,
            th |-> [t \in MutexThreads |-> [pc |-> "none", i |-> 0, tmp |-> 0, incs |-> 0]],
            unsafe_total |-> 0, failed |-> FALSE]

\* Where a thread of the phase starts a pass of its loop
PassEntry(phase) == IF phase = "safe" THEN "lock" ELSE "incr_load"

MutexLive == thr.prog = "mutex_demo" /\ thr.pc \notin {"exited", "trylock"}

\* `pthread_create(&t1, ...) != 0 || ...`; on failure perror,
\* pthread_mutex_destroy, exit(EXIT_FAILURE)
MutexCreate1 ==
  /\ thr.prog = "mutex_demo" /\ thr.pc = "create1"
  /\ \E ok \in BOOLEAN :
       thr' = IF ok THEN [thr EXCEPT !.pc = "create2",
                                     !.th[1] = [pc |-> PassEntry(thr.phase), i |-> 0, tmp |-> 0, incs |-> 0]]
              ELSE [thr EXCEPT !.pc = "exited"]
  /\ UNCHANGED ipcVars

\* `... || pthread_create(&t2, ...) != 0`
MutexCreate2 ==
  /\ thr.prog = "mutex_demo" /\ thr.pc = "create2"
  /\ \E ok \in BOOLEAN :
       thr' = IF ok THEN [thr EXCEPT !.pc = "join1",
                                     !.th[2] = [pc |-> PassEntry(thr.phase), i |-> 0, tmp |-> 0, incs |-> 0]]
              ELSE [thr EXCEPT !.pc = "exited"]
  /\ UNCHANGED ipcVars

\* safe_mutex_lock_access: pthread_mutex_lock; blocks while another thread
\* holds the mutex; on an error perror and return NULL
MutexLock(t) ==
  /\ MutexLive /\ thr.th[t].pc = "lock"
  /\ \E ok \in BOOLEAN :
       IF ok THEN /\ LockFree(thr.mutex)
                  /\ thr' = [thr EXCEPT !.mutex = t, !.th[t].pc = "incr_load"]
       ELSE thr' = [thr EXCEPT !.th[t].pc = "returned", !.failed = TRUE]
  /\ UNCHANGED ipcVars

\* `shared_data++`: the load
IncrLoad(t) ==
  /\ MutexLive /\ thr.th[t].pc = "incr_load"
  /\ thr' = [thr EXCEPT !.th[t].tmp = thr.shared_data, !.th[t].pc = "incr_store"]
  /\ UNCHANGED ipcVars

\* `shared_data++`: the store
IncrStore(t) ==
  /\ MutexLive /\ thr.th[t].pc = "incr_store"
  /\ thr' = [thr EXCEPT !.shared_data = thr.th[t].tmp + 1, !.th[t].pc = "print",
                        !.th[t].incs = @ + 1]
  /\ UNCHANGED ipcVars

\* printf of shared_data
MutexPrint(t) ==
  /\ MutexLive /\ thr.th[t].pc = "print"
  /\ thr' = [thr EXCEPT !.th[t].pc = IF thr.phase = "safe" THEN "unlock" ELSE "sleep"]
  /\ UNCHANGED ipcVars

\* safe_mutex_lock_access: pthread_mutex_unlock; on an error perror and
\* return NULL, the mutex still held
MutexUnlock(t) ==
  /\ MutexLive /\ thr.th[t].pc = "unlock"
  /\ \E ok \in BOOLEAN :
       thr' = IF ok THEN [thr EXCEPT !.mutex = 0, !.th[t].pc = "sleep"]
              ELSE [thr EXCEPT !.th[t].pc = "returned", !.failed = TRUE]
  /\ UNCHANGED ipcVars

\* usleep(100000), ++i and the loop test
MutexSleep(t) ==
  /\ MutexLive /\ thr.th[t].pc = "sleep"
  /\ thr' = [thr EXCEPT !.th[t].i = @ + 1,
                        !.th[t].pc = IF thr.th[t].i + 1 < LoopCount
                                     THEN PassEntry(thr.phase) ELSE "returned"]
  /\ UNCHANGED ipcVars

\* pthread_join(t1, NULL)
MutexJoin1 ==
  /\ thr.prog = "mutex_demo" /\ thr.pc = "join1"
  /\ thr.th[1].pc = "returned"
  /\ thr' = [thr EXCEPT !.pc = "join2"]
  /\ UNCHANGED ipcVars

\* pthread_join(t2, NULL); after the unsafe phase `shared_data = 0;` and the
\* printf of the safe phase, after the safe phase the printf of the trylock
\* demo
MutexJoin2 ==
  /\ thr.prog = "mutex_demo" /\ thr.pc = "join2"
  /\ thr.th[2].pc = "returned"
  /\ thr' = IF thr.phase = "unsafe"
            THEN [thr EXCEPT !.pc = "create1", !.phase = "safe",
                             !.unsafe_total = thr.shared_data, !.shared_data = 0,
                             !.th = [t \in MutexThreads |-> [pc |-> "none", i |-> 0, tmp |-> 0, incs |-> 0]]]
            ELSE [thr EXCEPT !.pc = "trylock"]
  /\ UNCHANGED ipcVars

NextMutex ==
  \/ MutexCreate1 \/ MutexCreate2
  \/ \E t \in MutexThreads : MutexLock(t)
  \/ \E t \in MutexThreads : IncrLoad(t)
  \/ \E t \in MutexThreads : IncrStore(t)
  \/ \E t \in MutexThreads : MutexPrint(t)
  \/ \E t \in MutexThreads : MutexUnlock(t)
  \/ \E t \in MutexThreads : MutexSleep(t)
  \/ MutexJoin1 \/ MutexJoin2

SpecMutex == InitMutex /\ [][NextMutex]_vars

\* The threads between a pthread_mutex_lock that returned 0 and the
\* pthread_mutex_unlock after it
InCritical == {t \in MutexThreads : thr.th[t].pc \in {"incr_load", "incr_store", "print", "unlock"}}

\* How many times thread t has executed `shared_data++` in this phase
Increments(t) == thr.th[t].incs

\* C33: in the safe phase at most one of the two threads is between
\* pthread_mutex_lock and pthread_mutex_unlock, and it is the one that holds
\* the mutex; shared_data is the number of increments executed so far, none
\* is lost; and when no lock or unlock call failed, shared_data is 10 once
\* both threads are joined, whatever the interleaving.
C33_SafePhase ==
  (thr.prog = "mutex_demo" /\ thr.phase = "safe") =>
    /\ Cardinality(InCritical) <= 1
    /\ \A t \in InCritical : thr.mutex = t
    /\ \A t \in MutexThreads : thr.th[t].pc \in {"lock", "incr_load", "incr_store"} =>
                                 Increments(t) = thr.th[t].i
    /\ thr.shared_data = Increments(1) + Increments(2)
    /\ (thr.pc = "trylock" /\ ~thr.failed) =>
         /\ \A t \in MutexThreads : thr.th[t].pc = "returned"
         /\ thr.shared_data = 2 * LoopCount
         /\ thr.mutex = 0

C33_Witness ==
  /\ thr.prog = "mutex_demo" /\ thr.phase = "safe" /\ thr.pc = "trylock"
  /\ ~thr.failed /\ thr.shared_data = 10
  /\ thr.unsafe_total < 10

----------------------------------------------------------------------------
(* Pausable countdown (Lab, Final Tasks, q4.c, second program): main counts *)
(* down from 10, one number a second; the handler of SIGINT clears          *)
(* is_running, the handler of SIGTSTP sets it, and main calls pause() while *)
(* is_running is 0. A handler runs between two steps of main                *)

CountdownSteps == 10     \* `for (size_t i = 0; i < 10; i++)`
MaxSignals == 3          \* signals delivered in one run
Signals == {"SIGINT", "SIGTSTP"}

\* The state after the two signal() calls and printf("Countdown:\n")
InitCountdown ==
  /\ SessIdle
  /\ io = IoIdle
  /\ thr = [prog |-> "countdown", pc |-> "for_test", i |-> 0, is_running |-> 1,
            handled |-> <<>>, printed |-> 0]

\* `i < 10` of the for loop; main returns when it fails
ForTest ==
  /\ thr.prog = "countdown" /\ thr.pc = "for_test"
  /\ thr' = [thr EXCEPT !.pc = IF thr.i < CountdownSteps THEN "while_test" ELSE "done"]
  /\ UNCHANGED ipcVars

\* `while (!is_running)`: on to the call of pause(), or on to the printf
WhileTest ==
  /\ thr.prog = "countdown" /\ thr.pc = "while_test"
  /\ thr' = [thr EXCEPT !.pc = IF thr.is_running = 0 THEN "pause_call" ELSE "print"]
  /\ UNCHANGED ipcVars

\* pause() is entered: the process sleeps until a handler has run
PauseEnter ==
  /\ thr.prog = "countdown" /\ thr.pc = "pause_call"
  /\ thr' = [thr EXCEPT !.pc = "pausing"]
  /\ UNCHANGED ipcVars

\* printf("%2zu", 10 - i), and sleep(1) is entered
PrintNumber ==
  /\ thr.prog = "countdown" /\ thr.pc = "print"
  /\ thr' = [thr EXCEPT !.pc = "sleeping", !.printed = @ + 1]
  /\ UNCHANGED ipcVars

\* The second of sleep(1) is over; i++
SleepOver ==
  /\ thr.prog = "countdown" /\ thr.pc = "sleeping"
  /\ thr' = [thr EXCEPT !.pc = "for_test", !.i = @ + 1]
  /\ UNCHANGED ipcVars

\* What the handler of a signal leaves in is_running
HandlerValue(sig) == IF sig = "SIGINT" THEN 0 ELSE 1

\* A signal is delivered and its handler runs: sigint_handler or
\* sigtstp_handler. A pause() or sleep() it interrupts returns when the
\* handler has returned; anywhere else main goes on where it was
Signal(sig) ==
  /\ thr.prog = "countdown" /\ thr.pc # "done"
  /\ Len(thr.handled) < MaxSignals
  /\ thr' = [thr EXCEPT !.is_running = HandlerValue(sig),
                        !.handled = Append(@, sig),
                        !.pc = IF thr.pc = "pausing" THEN "while_test"
                               ELSE IF thr.pc = "sleeping" THEN "for_test" ELSE @,
                        !.i = IF thr.pc = "sleeping" THEN @ + 1 ELSE @]
  /\ UNCHANGED ipcVars

MainStep == ForTest \/ WhileTest \/ PauseEnter \/ PrintNumber \/ SleepOver

NextCountdown ==
  \/ ForTest \/ WhileTest \/ PauseEnter \/ PrintNumber \/ SleepOver
  \/ \E sig \in Signals : Signal(sig)

SpecCountdown == InitCountdown /\ [][NextCountdown]_vars

\* main is scheduled; whether a signal arrives is up to the user
SpecCountdownFair == SpecCountdown /\ WF_vars(MainStep)

\* A resume signal has been handled after a pause signal, as the k-th signal
ResumedAt(k) ==
  /\ thr.prog = "countdown"
  /\ Len(thr.handled) = k /\ k >= 2
  /\ thr.handled[k] = "SIGTSTP"
  /\ \E h \in 1..(k - 1) : thr.handled[h] = "SIGINT"

\* The countdown has printed all its numbers and main has returned
CountdownFinished == thr.prog = "countdown" /\ thr.pc = "done" /\ thr.printed = CountdownSteps

\* C34: pausable countdown. While is_running is 0 the loop does not go on from
\* its test `while (!is_running)` to the next number, and whenever a SIGTSTP
\* has been handled after a SIGINT, the countdown goes on to print all 10
\* numbers and finish unless a further signal arrives, wherever in the loop
\* of main the signals were delivered.
C34_PauseAndResume ==
  /\ [][(thr.prog = "countdown" /\ thr.pc = "while_test" /\ thr.is_running = 0)
          => thr'.pc # "print"]_vars
  /\ \A k \in 0..MaxSignals :
       ResumedAt(k) ~> (CountdownFinished \/ (thr.prog = "countdown" /\ Len(thr.handled) > k))

\* Read to the letter, no number at all is printed while is_running is 0.
\* That fails for the number of the pass under way, when SIGINT is delivered
\* between the test `while (!is_running)` and the printf
C34_NoNumberWhilePaused ==
  [][(thr.prog = "countdown" /\ thr.is_running = 0) => thr'.printed = thr.printed]_vars

\* What does hold: a run without signals finishes, and so does a run after a
\* resume that leaves main anywhere but before or inside pause()
C34_ResumeInsidePause ==
  /\ (thr.prog = "countdown" /\ Len(thr.handled) = 0)
       ~> (CountdownFinished \/ (thr.prog = "countdown" /\ Len(thr.handled) > 0))
  /\ \A k \in 0..MaxSignals :
       (ResumedAt(k) /\ thr.pc \in {"while_test", "for_test", "print", "sleeping"})
         ~> (CountdownFinished \/ (thr.prog = "countdown" /\ Len(thr.handled) > k))

\* main asleep in pause() although the resume has been handled
C34_StuckAfterResume ==
  /\ thr.prog = "countdown" /\ thr.pc = "pausing" /\ thr.is_running = 1
  /\ ResumedAt(Len(thr.handled))

====
